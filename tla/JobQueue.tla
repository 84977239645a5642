------------------------------- MODULE JobQueue -------------------------------
(***************************************************************************)
(* The durable job queue: the jobs table of the local SQLite database, the *)
(* methods of SQLiteJobRepository that read and write it, the workers that *)
(* claim and execute jobs (DurableWorker.run_once) and the clients that    *)
(* cancel and retry them (HTTP API, dashboard, command line).              *)
(*                                                                         *)
(* Grain of atomicity.  Every repository method opens engine.begin(), but  *)
(* the sqlite3 driver sends BEGIN only in front of the first INSERT,       *)
(* UPDATE or DELETE: a SELECT before it runs in autocommit mode.  A method *)
(* that starts with an UPDATE (claim, heartbeat) is therefore one atomic   *)
(* step, and a method that SELECTs and then UPDATEs (request_cancellation, *)
(* retry, fail, _finish) is two: other processes and threads write between *)
(* them.  An UPDATE's WHERE clause is evaluated under the write lock.      *)
(*                                                                         *)
(* Time is counted in ticks of one clock shared by all processes of the    *)
(* host.  A tick that no lease expiry and no retry delay waits for is not  *)
(* taken.                                                                  *)
(***************************************************************************)
EXTENDS Naturals, FiniteSets

CONSTANTS
    Jobs,            \* rows of the jobs table, once enqueued
    Workers,         \* threads or processes that call run_once
    Clients,         \* threads or processes that call cancel and retry
    WorkerIds,       \* values of the lease_owner column
    Identity,        \* worker_id of each worker: two workers may share one
    None,            \* SQL NULL
    Budget,          \* max_attempts of each job
    LeaseDuration,   \* lease_duration, in ticks
    BackoffCap,      \* longest delay before a failed job is due again
    MaxStall,        \* ticks a method may take between its SELECT and UPDATE
    TimelyWorkers,   \* TRUE: a live worker renews its lease before it expires
    MaxBeats,        \* bound on the checkpoints of one handler execution
    MaxRequests,     \* bound on the requests of one client
    MaxTime          \* bound on the clock

ASSUME NoneAssumption == None \notin WorkerIds /\ None \notin Nat
ASSUME IdentityAssumption == Identity \in [Workers -> WorkerIds]
ASSUME BudgetAssumption == Budget \in [Jobs -> Nat \ {0}]
ASSUME TimeAssumption ==
    /\ LeaseDuration \in Nat \ {0}
    /\ BackoffCap \in Nat
    /\ MaxStall \in Nat
    /\ MaxBeats \in Nat
    /\ MaxRequests \in Nat
    /\ MaxTime \in Nat
    /\ TimelyWorkers \in BOOLEAN

VARIABLES
    now,      \* the clock
    row,      \* [Jobs -> the columns of the row that the lifecycle reads]
    worker,   \* [Workers -> where run_once is, and its local variables]
    client    \* [Clients -> the request in progress]

vars == <<now, row, worker, client>>

-------------------------------------------------------------------------------
(* Rows. *)

Active == {"running", "cancel_requested"}
Terminal == {"succeeded", "failed", "cancelled"}
Statuses == {"queued"} \cup Active \cup Terminal

Row == [status    : Statuses \cup {"absent"},
        attempt   : Nat,
        available : Nat,
        created   : Nat,
        owner     : WorkerIds \cup {None},
        expires   : Nat \cup {None},
        completed : BOOLEAN]               \* completed_at IS NOT NULL

NoRow == [status |-> "absent", attempt |-> 0, available |-> 0, created |-> 0,
          owner |-> None, expires |-> None, completed |-> FALSE]

(* "lease_expires_at <= now" and "> now": neither holds of NULL. *)
Expired(r) == r.expires # None /\ r.expires <= now
Unexpired(r) == r.expires # None /\ r.expires > now

(* validate_lifecycle: a row that fails it cannot be read back through get *)
(* or list.                                                                *)
Readable(r) ==
    /\ r.status \in Active => r.owner # None /\ r.expires # None
    /\ r.status \in Terminal => r.completed

Unleased(r) == [r EXCEPT !.owner = None, !.expires = None]

Completed(r, status) == [Unleased(r) EXCEPT !.status = status, !.completed = TRUE]

-------------------------------------------------------------------------------
(* Enqueueing: the row appears, due at once. *)

(* Mutant of Enqueue: available_at is left NULL when the request has none. *)
Enqueue_NeverDue(j) ==
    /\ row[j].status = "absent"
    /\ row' = [row EXCEPT ![j] = [NoRow EXCEPT !.status = "queued",
                                               !.available = None,
                                               !.created = now]]
    /\ UNCHANGED <<now, worker, client>>

Enqueue(j) ==
    /\ row[j].status = "absent"
    /\ row' = [row EXCEPT ![j] = [NoRow EXCEPT !.status = "queued",
                                               !.available = now,
                                               !.created = now]]
    /\ UNCHANGED <<now, worker, client>>

-------------------------------------------------------------------------------
(* Claiming. *)

(* Mutant of Swept: an expired lease fails the job whatever its attempts.  *)
Swept_FailsEarly(j) ==
    IF row[j].status = "cancel_requested" /\ Expired(row[j])
    THEN Completed(row[j], "cancelled")
    ELSE IF row[j].status = "running" /\ Expired(row[j])
    THEN Completed(row[j], "failed")
    ELSE row[j]

(* The two bulk UPDATEs at the start of claim. *)
Swept(j) ==
    IF row[j].status = "cancel_requested" /\ Expired(row[j])
    THEN Completed(row[j], "cancelled")
    ELSE IF row[j].status = "running" /\ Expired(row[j]) /\ row[j].attempt >= Budget[j]
    THEN Completed(row[j], "failed")
    ELSE row[j]

(* Mutant of Claimable: expired leases are not reclaimed. *)
Claimable_QueuedOnly(j) ==
    /\ Swept(j).attempt < Budget[j]
    /\ Swept(j).status = "queued" /\ Swept(j).available <= now

Claimable(j) ==
    /\ Swept(j).attempt < Budget[j]
    /\ \/ Swept(j).status = "queued" /\ Swept(j).available <= now
       \/ Swept(j).status \in Active /\ Expired(Swept(j))

(* ORDER BY available_at, created_at, id: ids are random. *)
Before(j, k) ==
    \/ row[j].available < row[k].available
    \/ row[j].available = row[k].available /\ row[j].created < row[k].created

NextInLine(j) ==
    /\ Claimable(j)
    /\ \A k \in Jobs : Claimable(k) => ~Before(k, j)

(* Mutant of Granted: the expiry of the new lease is not written. *)
Granted_NoExpiry(j, id) ==
    [Swept(j) EXCEPT !.status = IF @ = "cancel_requested" THEN @ ELSE "running",
                     !.attempt = @ + 1,
                     !.owner = id]

Granted(j, id) ==
    [Swept(j) EXCEPT !.status = IF @ = "cancel_requested" THEN @ ELSE "running",
                     !.attempt = @ + 1,
                     !.owner = id,
                     !.expires = now + LeaseDuration]

Idle == [pc |-> "idle", job |-> None, at |-> 0, seen |-> 0, beats |-> 0]

ClaimJob(w, j) ==
    /\ worker[w].pc = "idle"
    /\ NextInLine(j)
    /\ row' = [k \in Jobs |-> IF k = j THEN Granted(j, Identity[w]) ELSE Swept(k)]
    /\ worker' = [worker EXCEPT ![w] =
           [Idle EXCEPT !.pc = IF row'[j].status = "cancel_requested"
                               THEN "cancel" ELSE "begin",
                        !.job = j]]
    /\ UNCHANGED <<now, client>>

(* Nothing is due; the expired leases are swept all the same. *)
ClaimNothing(w) ==
    /\ worker[w].pc = "idle"
    /\ \A j \in Jobs : ~Claimable(j)
    /\ row' = [j \in Jobs |-> Swept(j)]
    /\ UNCHANGED <<now, worker, client>>

-------------------------------------------------------------------------------
(* Executing.  checkpoint is called before the handler ("begin"), by the   *)
(* handler ("handler") and after it ("closing").                           *)

(* Mutant of HoldsLease: a heartbeat revives an expired lease. *)
HoldsLease_Expired(w, j) ==
    /\ row[j].owner = Identity[w]
    /\ row[j].status \in Active

(* The WHERE clause of heartbeat. *)
HoldsLease(w, j) ==
    /\ row[j].owner = Identity[w]
    /\ row[j].status \in Active
    /\ Unexpired(row[j])

AtCheckpoint(w) ==
    \/ worker[w].pc \in {"begin", "closing"}
    \/ worker[w].pc = "handler" /\ worker[w].beats < MaxBeats

Renewed(j) == [row EXCEPT ![j] = [@ EXCEPT !.expires = now + LeaseDuration]]

Beats(w) == worker[w].beats + (IF worker[w].pc = "handler" THEN 1 ELSE 0)

Counted(w, pc) ==
    [worker EXCEPT ![w] = [worker[w] EXCEPT !.pc = pc, !.beats = Beats(w)]]

CheckpointRenews(w) ==
    LET j == worker[w].job
    IN  /\ AtCheckpoint(w)
        /\ HoldsLease(w, j) /\ row[j].status = "running"
        /\ row' = Renewed(j)
        /\ worker' = Counted(w, CASE worker[w].pc = "begin"   -> "handler"
                                  [] worker[w].pc = "handler" -> "handler"
                                  [] worker[w].pc = "closing" -> "succeed")
        /\ UNCHANGED <<now, client>>

(* JobCancellationRequested: raised out of run_once's try block, or held   *)
(* back by a handler that winds down first (the scan handler's event sink).*)
CheckpointCancels(w) ==
    LET j == worker[w].job
    IN  /\ AtCheckpoint(w)
        /\ HoldsLease(w, j) /\ row[j].status = "cancel_requested"
        /\ row' = Renewed(j)
        /\ \/ worker' = Counted(w, "cancel")
           \/ worker[w].pc = "handler" /\ worker' = Counted(w, "handler")
        /\ UNCHANGED <<now, client>>

(* JobLeaseLostError: handled like any failure of the handler, or swallowed *)
(* by the scan pipeline, which isolates the exceptions of its event sink.   *)
CheckpointLosesLease(w) ==
    /\ AtCheckpoint(w)
    /\ ~HoldsLease(w, worker[w].job)
    /\ \/ worker' = Counted(w, "fail")
       \/ worker[w].pc = "handler" /\ worker' = Counted(w, "handler")
    /\ UNCHANGED <<now, row, client>>

HandlerReturns(w) ==
    /\ worker[w].pc = "handler"
    /\ worker' = [worker EXCEPT ![w] = [@ EXCEPT !.pc = "closing"]]
    /\ UNCHANGED <<now, row, client>>

HandlerFails(w) ==
    /\ worker[w].pc = "handler"
    /\ worker' = [worker EXCEPT ![w] = [@ EXCEPT !.pc = "fail"]]
    /\ UNCHANGED <<now, row, client>>

-------------------------------------------------------------------------------
(* Finishing: succeed, fail and cancel read the leased row, then write. *)

Finishing == {"succeed", "fail", "cancel"}
Writing == {"succeed_write", "fail_write", "cancel_write"}
WritePC == [succeed |-> "succeed_write", fail |-> "fail_write", cancel |-> "cancel_write"]

(* Mutant of ExpectedStatus: fail shares the status that cancel expects. *)
ExpectedStatus_Swapped(finish) ==
    IF finish = "succeed" THEN "running" ELSE "cancel_requested"

ExpectedStatus(finish) == IF finish = "cancel" THEN "cancel_requested" ELSE "running"

(* Mutant of MayFinish: the expiry of the lease is not looked at. *)
MayFinish_Expired(w, finish) ==
    /\ row[worker[w].job].owner = Identity[w]
    /\ row[worker[w].job].status = ExpectedStatus(finish)

(* _leased_row, and the status each method requires of it. *)
MayFinish(w, finish) ==
    LET r == row[worker[w].job]
    IN  /\ r.owner = Identity[w] /\ Unexpired(r)
        /\ r.status = ExpectedStatus(finish)

FinishReads(w) ==
    \E finish \in Finishing :
        /\ worker[w].pc = finish
        /\ MayFinish(w, finish)
        /\ worker' = [worker EXCEPT ![w] =
               [@ EXCEPT !.pc = WritePC[finish], !.at = now,
                         !.seen = row[worker[w].job].attempt]]
        /\ UNCHANGED <<now, row, client>>

(* JobLeaseLostError or JobStateError leaves run_once: nothing catches it  *)
(* in the agent's worker thread, which ends while its process lives on.    *)
FinishEscapes(w) ==
    \E finish \in Finishing :
        /\ worker[w].pc = finish
        /\ ~MayFinish(w, finish)
        /\ worker' = [worker EXCEPT ![w] = [Idle EXCEPT !.pc = "dead"]]
        /\ UNCHANGED <<now, row, client>>

(* succeed and cancel: UPDATE ... WHERE id = :id. *)
FinishWrites(w) ==
    LET j == worker[w].job
    IN  /\ \/ /\ worker[w].pc = "succeed_write"
              /\ row' = [row EXCEPT ![j] = Completed(@, "succeeded")]
           \/ /\ worker[w].pc = "cancel_write"
              /\ row' = [row EXCEPT ![j] = Completed(@, "cancelled")]
        /\ worker' = [worker EXCEPT ![w] = Idle]
        /\ UNCHANGED <<now, client>>

Backoff(attempt) == IF 2 ^ attempt \in 1 .. BackoffCap THEN 2 ^ attempt ELSE BackoffCap

(* Mutants of Failed: one attempt too many; the lease is left in place.    *)
Failed_OneMore(j, seen, at) ==
    [Unleased(row[j]) EXCEPT
        !.status = IF seen > Budget[j] THEN "failed" ELSE "queued",
        !.available = at + Backoff(seen),
        !.completed = seen > Budget[j]]

Failed_Leased(j, seen, at) ==
    [row[j] EXCEPT
        !.status = IF seen >= Budget[j] THEN "failed" ELSE "queued",
        !.available = at + Backoff(seen),
        !.completed = seen >= Budget[j]]

Failed(j, seen, at) ==
    [Unleased(row[j]) EXCEPT
        !.status = IF seen >= Budget[j] THEN "failed" ELSE "queued",
        !.available = at + Backoff(seen),
        !.completed = seen >= Budget[j]]

(* fail: UPDATE ... WHERE id = :id AND lease_owner = :worker. *)
FailWrites(w) ==
    LET j == worker[w].job
    IN  /\ worker[w].pc = "fail_write"
        /\ row[j].owner = Identity[w]
        /\ row' = [row EXCEPT ![j] = Failed(j, worker[w].seen, worker[w].at)]
        /\ worker' = [worker EXCEPT ![w] = Idle]
        /\ UNCHANGED <<now, client>>

(* No row matched: .one() raises, and the exception leaves run_once. *)
FailEscapes(w) ==
    /\ worker[w].pc = "fail_write"
    /\ row[worker[w].job].owner # Identity[w]
    /\ worker' = [worker EXCEPT ![w] = [Idle EXCEPT !.pc = "dead"]]
    /\ UNCHANGED <<now, row, client>>

-------------------------------------------------------------------------------
(* Crashes.  A killed process is started again by the service manager; a   *)
(* dead worker thread only by somebody who restarts the process.           *)

Stopped == {"crashed", "dead"}

Crash(w) ==
    /\ worker[w].pc \notin Stopped \cup {"idle"}
    /\ worker' = [worker EXCEPT ![w] = [Idle EXCEPT !.pc = "crashed"]]
    /\ UNCHANGED <<now, row, client>>

Restart(w) ==
    /\ worker[w].pc = "crashed"
    /\ worker' = [worker EXCEPT ![w] = Idle]
    /\ UNCHANGED <<now, row, client>>

Revive(w) ==
    /\ worker[w].pc = "dead"
    /\ worker' = [worker EXCEPT ![w] = Idle]
    /\ UNCHANGED <<now, row, client>>

-------------------------------------------------------------------------------
(* Clients: request_cancellation and retry, a SELECT and then an UPDATE    *)
(* WHERE id = :id.  A request that is refused changes nothing.             *)

NoRequest == [op |-> "none", job |-> None, seen |-> "absent", at |-> 0, asked |-> 0]

Asks(c, j, op) ==
    /\ client[c].op = "none"
    /\ client[c].asked < MaxRequests
    /\ client' = [client EXCEPT ![c] =
           [client[c] EXCEPT !.op = op, !.job = j, !.seen = row[j].status, !.at = now,
                             !.asked = client[c].asked + 1]]
    /\ UNCHANGED <<now, row, worker>>

Answered(c) == [client EXCEPT ![c] = [NoRequest EXCEPT !.asked = client[c].asked]]

CancelReads(c, j) == row[j].status \in {"queued"} \cup Active /\ Asks(c, j, "cancel")

RetryReads(c, j) == row[j].status \in {"failed", "cancelled"} /\ Asks(c, j, "retry")

(* Mutant of CancelledAs: completed_at is not written. *)
CancelledAs_NotCompleted(r, seen) ==
    [r EXCEPT !.status = IF seen = "queued" THEN "cancelled" ELSE "cancel_requested"]

(* The status read before decides what is written. *)
CancelledAs(r, seen) ==
    IF seen = "queued"
    THEN [r EXCEPT !.status = "cancelled", !.completed = TRUE]
    ELSE [r EXCEPT !.status = "cancel_requested"]

Requeued(r, at) ==
    [Unleased(r) EXCEPT !.status = "queued", !.attempt = 0,
                        !.available = at, !.completed = FALSE]

CancelWrites(c) ==
    LET j == client[c].job
    IN  /\ client[c].op = "cancel"
        /\ row' = [row EXCEPT ![j] = CancelledAs(@, client[c].seen)]
        /\ client' = Answered(c)
        /\ UNCHANGED <<now, worker>>

RetryWrites(c) ==
    LET j == client[c].job
    IN  /\ client[c].op = "retry"
        /\ row' = [row EXCEPT ![j] = Requeued(@, client[c].at)]
        /\ client' = Answered(c)
        /\ UNCHANGED <<now, worker>>

-------------------------------------------------------------------------------
(* The clock. *)

SomethingWaits ==
    \E j \in Jobs : \/ row[j].status = "queued" /\ row[j].available > now
                    \/ Unexpired(row[j])

WithinStall ==
    /\ \A w \in Workers : worker[w].pc \in Writing => now < worker[w].at + MaxStall
    /\ \A c \in Clients : client[c].op # "none" => now < client[c].at + MaxStall

NoLeaseRunsOut ==
    \A w \in Workers :
        worker[w].pc \notin Stopped \cup {"idle"} /\ HoldsLease(w, worker[w].job)
            => row[worker[w].job].expires > now + 1

Tick ==
    /\ now < MaxTime
    /\ SomethingWaits
    /\ WithinStall
    /\ TimelyWorkers => NoLeaseRunsOut
    /\ now' = now + 1
    /\ UNCHANGED <<row, worker, client>>

-------------------------------------------------------------------------------
Init ==
    /\ now = 0
    /\ row = [j \in Jobs |-> NoRow]
    /\ worker = [w \in Workers |-> Idle]
    /\ client = [c \in Clients |-> NoRequest]

(* One pass through run_once, a step at a time. *)
RunOnce(w) ==
    \/ \E j \in Jobs : ClaimJob(w, j)
    \/ ClaimNothing(w)
    \/ CheckpointRenews(w)
    \/ CheckpointCancels(w)
    \/ CheckpointLosesLease(w)
    \/ HandlerReturns(w)
    \/ HandlerFails(w)
    \/ FinishReads(w)
    \/ FinishEscapes(w)
    \/ FinishWrites(w)
    \/ FailWrites(w)
    \/ FailEscapes(w)

ClientStep(c) ==
    \/ \E j \in Jobs : CancelReads(c, j) \/ RetryReads(c, j)
    \/ CancelWrites(c)
    \/ RetryWrites(c)

Next ==
    \/ \E j \in Jobs : Enqueue(j)
    \/ \E w \in Workers : RunOnce(w) \/ Crash(w) \/ Restart(w) \/ Revive(w)
    \/ \E c \in Clients : ClientStep(c)
    \/ Tick

Spec == Init /\ [][Next]_vars

(* A called step is eventually taken: run_once is a loop, requests are     *)
(* answered, the service manager restarts killed processes.  Nothing is    *)
(* assumed of crashes, new requests or the revival of a dead worker.       *)
Fairness ==
    /\ \A w \in Workers : WF_vars(RunOnce(w)) /\ WF_vars(Restart(w))
    /\ \A c \in Clients : WF_vars(CancelWrites(c) \/ RetryWrites(c))
    /\ WF_vars(Tick)

FairSpec == Spec /\ Fairness

-------------------------------------------------------------------------------
(* Properties. *)

WorkerPCs == {"idle", "begin", "handler", "closing"} \cup Finishing \cup Writing \cup Stopped

WorkerState == [pc : WorkerPCs, job : Jobs \cup {None}, at : Nat, seen : Nat, beats : Nat]

Request == [op : {"none", "cancel", "retry"}, job : Jobs \cup {None},
            seen : Statuses \cup {"absent"}, at : Nat, asked : Nat]

TypeOK ==
    /\ now \in Nat
    /\ row \in [Jobs -> Row]
    /\ worker \in [Workers -> WorkerState]
    /\ \A w \in Workers : worker[w].pc \in {"idle"} \cup Stopped \/ worker[w].job \in Jobs
    /\ client \in [Clients -> Request]
    /\ \A c \in Clients : client[c].op = "none" \/ client[c].job \in Jobs

(* A running job always has a lease with an expiry, so that a crashed      *)
(* worker's job can be reclaimed, and has not been completed.              *)
RunningIsLeased ==
    \A j \in Jobs : row[j].status = "running" =>
        row[j].owner # None /\ row[j].expires # None /\ ~row[j].completed

(* A queued job carries nothing over from an earlier life: no lease that   *)
(* some worker could still renew or finish, no completion time.            *)
QueuedIsFresh ==
    \A j \in Jobs : row[j].status = "queued" =>
        row[j].owner = None /\ row[j].expires = None /\ ~row[j].completed

(* Terminal rows have their completion time, whichever write came last.    *)
TerminalIsCompleted ==
    \A j \in Jobs : row[j].status \in Terminal => row[j].completed

(* No interleaving of claims, failures and retries starts a job more often *)
(* than its budget allows, and a queued job always has an attempt left.    *)
AttemptsWithinBudget ==
    \A j \in Jobs : /\ row[j].attempt <= Budget[j]
                    /\ row[j].status = "queued" => row[j].attempt < Budget[j]

(* A claim grants a job only when no unexpired lease is held on it, only   *)
(* unexpired leases are renewed, and the budget is refilled only by an     *)
(* operation that also drops the lease: in spite of all races.             *)
Leases == INSTANCE JobLease WITH
    clock <- now,
    holder <- [j \in Jobs |-> row[j].owner],
    deadline <- [j \in Jobs |-> row[j].expires],
    grants <- [j \in Jobs |-> row[j].attempt]

LeaseSpec == Leases!Spec

(* The status column moves only along the lifecycle diagram. *)
Lifecycle == INSTANCE JobLifecycle WITH
    status <- [j \in Jobs |-> row[j].status],
    tries <- [j \in Jobs |-> row[j].attempt]

LifecycleSpec == Lifecycle!Spec

(* get and list can read every row back: active jobs have a lease owner    *)
(* and an expiration, terminal jobs a completion time.                     *)
RowsReadable == \A j \in Jobs : Readable(row[j])

(* No failure of a handler or of a lease ends a worker thread for good. *)
WorkersSurvive == \A w \in Workers : worker[w].pc # "dead"

(* The outcome of an attempt is written by the worker that holds the lease *)
(* of that attempt.                                                        *)
OutcomeByHolder ==
    [][\A w \in Workers :
          worker[w].pc \in Writing /\ worker'[w] = Idle =>
              /\ row[worker[w].job].owner = Identity[w]
              /\ row[worker[w].job].attempt = worker[w].seen]_vars

(* Every queued job is eventually settled. *)
EveryJobSettles ==
    \A j \in Jobs : row[j].status = "queued" ~> row[j].status \in Terminal

(* A job whose worker let the lease expire is claimed again or failed. *)
ExpiredLeasesRecover ==
    \A j \in Jobs : row[j].status = "running" /\ Expired(row[j])
                        ~> ~(row[j].status = "running" /\ Expired(row[j]))

===============================================================================
