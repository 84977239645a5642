---------------------------- MODULE JobQueueProofs ----------------------------
(***************************************************************************)
(* What holds of the job queue for any number of jobs, workers and         *)
(* clients, any assignment of worker ids, any budgets, any lease duration  *)
(* and any stalls: every interleaving of the methods' SELECTs and UPDATEs. *)
(* The last part is about workers that nobody interferes with.             *)
(***************************************************************************)
EXTENDS JobQueue, TLAPS

(* The retry delay is a number of ticks. *)
LEMMA BackoffIsNat == ASSUME NEW attempt \in Nat PROVE Backoff(attempt) \in Nat
  BY TimeAssumption DEF Backoff

(* Writing columns of the right types into a row gives a row. *)
LEMMA UnleasedIsRow == ASSUME NEW r \in Row PROVE Unleased(r) \in Row
  BY DEF Row, Unleased

LEMMA LeasedIsRow ==
  ASSUME NEW r \in Row, NEW s \in Statuses, NEW a \in Nat,
         NEW id \in WorkerIds, NEW e \in Nat
  PROVE  [r EXCEPT !.status = s, !.attempt = a, !.owner = id, !.expires = e] \in Row
  BY DEF Row

LEMMA DelayedIsRow ==
  ASSUME NEW r \in Row, NEW s \in Statuses, NEW a \in Nat, NEW b \in BOOLEAN
  PROVE  [r EXCEPT !.status = s, !.available = a, !.completed = b] \in Row
  BY DEF Row

LEMMA CompletedIsRow ==
  ASSUME NEW r \in Row, NEW s \in Terminal
  PROVE  Completed(r, s) \in Row
  BY UnleasedIsRow DEF Completed, Row, Statuses

LEMMA RenewedIsRow ==
  ASSUME NEW r \in Row, NEW e \in Nat
  PROVE  [r EXCEPT !.expires = e] \in Row
  BY DEF Row

(* A sweep leaves rows in shape. *)
LEMMA SweptIsRow == ASSUME TypeOK, NEW j \in Jobs PROVE Swept(j) \in Row
  BY CompletedIsRow DEF TypeOK, Swept, Terminal

LEMMA GrantedIsRow ==
  ASSUME TypeOK, NEW j \in Jobs, NEW id \in WorkerIds
  PROVE  Granted(j, id) \in Row
  <1> DEFINE s == IF Swept(j).status = "cancel_requested" THEN Swept(j).status ELSE "running"
  <1>1. Swept(j) \in Row
    BY SweptIsRow
  <1>2. now + LeaseDuration \in Nat
    BY TimeAssumption DEF TypeOK
  <1>3. s \in Statuses /\ Swept(j).attempt + 1 \in Nat
    BY <1>1 DEF Row, Statuses, Active
  <1> QED
    BY <1>1, <1>2, <1>3, LeasedIsRow DEF Granted

LEMMA FailedIsRow ==
  ASSUME TypeOK, NEW j \in Jobs, NEW seen \in Nat, NEW at \in Nat
  PROVE  Failed(j, seen, at) \in Row
  <1>1. at + Backoff(seen) \in Nat
    BY BackoffIsNat
  <1>2. (IF seen >= Budget[j] THEN "failed" ELSE "queued") \in Statuses
    BY DEF Statuses, Terminal
  <1>3. (seen >= Budget[j]) \in BOOLEAN
    OBVIOUS
  <1>4. Unleased(row[j]) \in Row
    BY UnleasedIsRow DEF TypeOK
  <1> QED
    BY <1>1, <1>2, <1>3, <1>4, DelayedIsRow DEF Failed

LEMMA ClientRowsAreRows ==
  ASSUME NEW r \in Row, NEW seen, NEW at \in Nat
  PROVE  CancelledAs(r, seen) \in Row /\ Requeued(r, at) \in Row
  <1>1. CancelledAs(r, seen) \in Row
    BY DEF CancelledAs, Row, Statuses, Active, Terminal
  <1>2. Unleased(r) \in Row
    BY UnleasedIsRow
  <1>3. Requeued(r, at) \in Row
    BY <1>2 DEF Requeued, Row, Statuses
  <1> QED
    BY <1>1, <1>3

(* A worker that moves on keeps its job. *)
LEMMA MovedWorker ==
  ASSUME TypeOK, NEW w \in Workers, worker[w].job \in Jobs,
         NEW pc \in WorkerPCs, NEW beats \in Nat, NEW seen \in Nat, NEW at \in Nat
  PROVE  /\ [worker[w] EXCEPT !.pc = pc] \in WorkerState
         /\ [worker[w] EXCEPT !.pc = pc].job \in Jobs
         /\ [worker[w] EXCEPT !.pc = pc, !.beats = beats] \in WorkerState
         /\ [worker[w] EXCEPT !.pc = pc, !.beats = beats].job \in Jobs
         /\ [worker[w] EXCEPT !.pc = pc, !.at = at, !.seen = seen] \in WorkerState
         /\ [worker[w] EXCEPT !.pc = pc, !.at = at, !.seen = seen].job \in Jobs
  BY DEF TypeOK, WorkerState

LEMMA CountedWorker ==
  ASSUME TypeOK, NEW w \in Workers, worker[w].job \in Jobs, NEW pc \in WorkerPCs
  PROVE  /\ Counted(w, pc) \in [Workers -> WorkerState]
         /\ \A v \in Workers : \/ Counted(w, pc)[v].pc \in {"idle"} \cup Stopped
                               \/ Counted(w, pc)[v].job \in Jobs
  <1>1. Beats(w) \in Nat
    BY DEF Beats, TypeOK, WorkerState
  <1>2. /\ [worker[w] EXCEPT !.pc = pc, !.beats = Beats(w)] \in WorkerState
        /\ [worker[w] EXCEPT !.pc = pc, !.beats = Beats(w)].job \in Jobs
    BY <1>1, MovedWorker, 0 \in Nat
  <1> QED
    BY <1>2 DEF Counted, TypeOK

LEMMA RestedWorker ==
  ASSUME TypeOK, NEW w \in Workers, NEW pc \in {"idle"} \cup Stopped
  PROVE  LET rested == [worker EXCEPT ![w] = [Idle EXCEPT !.pc = pc]]
         IN  /\ rested \in [Workers -> WorkerState]
             /\ \A v \in Workers : rested[v].pc \in {"idle"} \cup Stopped \/ rested[v].job \in Jobs
  BY DEF TypeOK, Idle, WorkerState, WorkerPCs

LEMMA IdleIsRested == [Idle EXCEPT !.pc = "idle"] = Idle
  BY DEF Idle

(* Every step keeps the types. *)
LEMMA TypeStep == TypeOK /\ [Next]_vars => TypeOK'
<1> SUFFICES ASSUME TypeOK, [Next]_vars PROVE TypeOK'
  OBVIOUS
<1> USE DEF TypeOK
<1>1. ASSUME NEW j \in Jobs, Enqueue(j) PROVE TypeOK'
  BY <1>1 DEF Enqueue, NoRow, Row, Statuses
<1>2. ASSUME NEW w \in Workers, NEW j \in Jobs, ClaimJob(w, j) PROVE TypeOK'
  <2>1. Identity[w] \in WorkerIds
    BY IdentityAssumption
  <2>2. row' \in [Jobs -> Row]
    BY <1>2, <2>1, SweptIsRow, GrantedIsRow DEF ClaimJob
  <2> QED
    BY <1>2, <2>2 DEF ClaimJob, Idle, WorkerState, WorkerPCs, Finishing
<1>3. ASSUME NEW w \in Workers, ClaimNothing(w) PROVE TypeOK'
  BY <1>3, SweptIsRow DEF ClaimNothing
<1>4. ASSUME NEW w \in Workers, CheckpointRenews(w) PROVE TypeOK'
  <2>1. now + LeaseDuration \in Nat
    BY TimeAssumption
  <2>2. worker[w].job \in Jobs
    BY <1>4 DEF CheckpointRenews, AtCheckpoint, Stopped
  <2>3. row' \in [Jobs -> Row]
    BY <1>4, <2>1, <2>2, RenewedIsRow DEF CheckpointRenews, Renewed
  <2>4. PICK pc \in {"handler", "succeed"} : worker' = Counted(w, pc)
    BY <1>4 DEF CheckpointRenews, AtCheckpoint
  <2>5. pc \in WorkerPCs
    BY DEF WorkerPCs, Finishing
  <2> QED
    BY <1>4, <2>2, <2>3, <2>4, <2>5, CountedWorker DEF CheckpointRenews
<1>5. ASSUME NEW w \in Workers, CheckpointCancels(w) PROVE TypeOK'
  <2>1. now + LeaseDuration \in Nat
    BY TimeAssumption
  <2>2. worker[w].job \in Jobs
    BY <1>5 DEF CheckpointCancels, AtCheckpoint, Stopped
  <2>3. row' \in [Jobs -> Row]
    BY <1>5, <2>1, <2>2, RenewedIsRow DEF CheckpointCancels, Renewed
  <2>4. PICK pc \in {"handler", "cancel"} : worker' = Counted(w, pc)
    BY <1>5 DEF CheckpointCancels
  <2>5. pc \in WorkerPCs
    BY DEF WorkerPCs, Finishing
  <2> QED
    BY <1>5, <2>2, <2>3, <2>4, <2>5, CountedWorker DEF CheckpointCancels
<1>6. ASSUME NEW w \in Workers, CheckpointLosesLease(w) PROVE TypeOK'
  <2>1. worker[w].job \in Jobs
    BY <1>6 DEF CheckpointLosesLease, AtCheckpoint, Stopped
  <2>2. PICK pc \in {"handler", "fail"} : worker' = Counted(w, pc)
    BY <1>6 DEF CheckpointLosesLease
  <2>3. pc \in WorkerPCs
    BY DEF WorkerPCs, Finishing
  <2> QED
    BY <1>6, <2>1, <2>2, <2>3, CountedWorker DEF CheckpointLosesLease
<1>7. ASSUME NEW w \in Workers, HandlerReturns(w) \/ HandlerFails(w) PROVE TypeOK'
  <2>1. worker[w].job \in Jobs
    BY <1>7 DEF HandlerReturns, HandlerFails, Stopped
  <2>2. PICK pc \in {"closing", "fail"} : worker' = [worker EXCEPT ![w] = [@ EXCEPT !.pc = pc]]
    BY <1>7 DEF HandlerReturns, HandlerFails
  <2>3. /\ [worker[w] EXCEPT !.pc = pc] \in WorkerState
        /\ [worker[w] EXCEPT !.pc = pc].job \in Jobs
    BY <2>1, MovedWorker, 0 \in Nat DEF WorkerPCs, Finishing
  <2> QED
    BY <1>7, <2>2, <2>3 DEF HandlerReturns, HandlerFails
<1>8. ASSUME NEW w \in Workers, FinishReads(w) PROVE TypeOK'
  <2>1. worker[w].job \in Jobs
    BY <1>8 DEF FinishReads, Finishing, Stopped
  <2> PICK finish \in Finishing : worker' = [worker EXCEPT ![w] =
            [@ EXCEPT !.pc = WritePC[finish], !.at = now,
                      !.seen = row[worker[w].job].attempt]]
    BY <1>8 DEF FinishReads
  <2> DEFINE pc == WritePC[finish]
  <2>2. pc \in WorkerPCs
    BY DEF WritePC, Finishing, Writing, WorkerPCs
  <2>3. row[worker[w].job].attempt \in Nat
    BY <2>1 DEF Row
  <2>4. LET moved == [worker[w] EXCEPT !.pc = pc, !.at = now,
                                      !.seen = row[worker[w].job].attempt]
        IN  moved \in WorkerState /\ moved.job \in Jobs
    BY <2>1, <2>2, <2>3, MovedWorker, 0 \in Nat
  <2> QED
    BY <1>8, <2>4 DEF FinishReads
<1>9. ASSUME NEW w \in Workers, FinishEscapes(w) \/ FailEscapes(w) PROVE TypeOK'
  <2>1. /\ worker' = [worker EXCEPT ![w] = [Idle EXCEPT !.pc = "dead"]]
        /\ UNCHANGED <<now, row, client>>
    BY <1>9 DEF FinishEscapes, FailEscapes
  <2> QED
    BY <2>1, RestedWorker, "dead" \in Stopped DEF Stopped
<1>10. ASSUME NEW w \in Workers, FinishWrites(w) PROVE TypeOK'
  <2>1. worker[w].job \in Jobs
    BY <1>10 DEF FinishWrites, Stopped
  <2>2. row' \in [Jobs -> Row]
    BY <1>10, <2>1, CompletedIsRow DEF FinishWrites, Terminal
  <2> QED
    BY <1>10, <2>2, RestedWorker, IdleIsRested DEF FinishWrites
<1>11. ASSUME NEW w \in Workers, FailWrites(w) PROVE TypeOK'
  <2>1. worker[w].job \in Jobs /\ worker[w].seen \in Nat /\ worker[w].at \in Nat
    BY <1>11 DEF FailWrites, Stopped, WorkerState
  <2>2. row' \in [Jobs -> Row]
    BY <1>11, <2>1, FailedIsRow DEF FailWrites
  <2> QED
    BY <1>11, <2>2, RestedWorker, IdleIsRested DEF FailWrites
<1>12. ASSUME NEW w \in Workers, Crash(w) \/ Restart(w) \/ Revive(w) PROVE TypeOK'
  <2>1. PICK pc \in {"idle"} \cup Stopped : worker' = [worker EXCEPT ![w] = [Idle EXCEPT !.pc = pc]]
    BY <1>12, IdleIsRested DEF Crash, Restart, Revive, Stopped
  <2>2. UNCHANGED <<now, row, client>>
    BY <1>12 DEF Crash, Restart, Revive
  <2> QED
    BY <2>1, <2>2, RestedWorker
<1>13. ASSUME NEW c \in Clients, NEW j \in Jobs, CancelReads(c, j) \/ RetryReads(c, j)
       PROVE  TypeOK'
  <2>1. row[j].status \in Statuses \cup {"absent"}
    BY DEF Row
  <2>2. PICK op \in {"cancel", "retry"} : Asks(c, j, op)
    BY <1>13 DEF CancelReads, RetryReads
  <2>3. LET asking == [client[c] EXCEPT !.op = op, !.job = j, !.seen = row[j].status,
                                        !.at = now, !.asked = client[c].asked + 1]
        IN  asking \in Request /\ asking.job \in Jobs
    <3>1. client[c] \in Request /\ client[c].asked + 1 \in Nat
      BY DEF Request
    <3> QED
      BY <2>1, <3>1 DEF Request
  <2> QED
    BY <2>2, <2>3 DEF Asks
<1>14. ASSUME NEW c \in Clients, CancelWrites(c) PROVE TypeOK'
  <2>1. client[c].job \in Jobs /\ client[c].at \in Nat
    BY <1>14 DEF CancelWrites, Request
  <2>2. row' \in [Jobs -> Row]
    BY <1>14, <2>1, ClientRowsAreRows DEF CancelWrites
  <2> QED
    BY <1>14, <2>2 DEF CancelWrites, Answered, NoRequest, Request
<1>15. ASSUME NEW c \in Clients, RetryWrites(c) PROVE TypeOK'
  <2>1. client[c].job \in Jobs /\ client[c].at \in Nat
    BY <1>15 DEF RetryWrites, Request
  <2>2. row' \in [Jobs -> Row]
    BY <1>15, <2>1, ClientRowsAreRows DEF RetryWrites
  <2> QED
    BY <1>15, <2>2 DEF RetryWrites, Answered, NoRequest, Request
<1>16. CASE Tick
  BY <1>16 DEF Tick
<1>17. CASE UNCHANGED vars
  BY <1>17 DEF vars
<1> QED
  BY <1>1, <1>2, <1>3, <1>4, <1>5, <1>6, <1>7, <1>8, <1>9, <1>10, <1>11, <1>12,
     <1>13, <1>14, <1>15, <1>16, <1>17 DEF Next, RunOnce, ClientStep

(* Every variable keeps its type. *)
THEOREM TypeCorrect == Spec => []TypeOK
<1>1. Init => TypeOK
  BY DEF Init, TypeOK, NoRow, Row, Idle, NoRequest, WorkerState, Request, WorkerPCs
<1> QED
  BY <1>1, TypeStep, PTL DEF Spec

-------------------------------------------------------------------------------
(* The consistency of a row, as one predicate on rows.                     *)
Fresh(r) ==
    /\ r.status = "running" => r.owner # None /\ r.expires # None /\ ~r.completed
    /\ r.status = "queued" => r.owner = None /\ r.expires = None /\ ~r.completed
    /\ r.status \in Terminal => r.completed
    /\ r.status = "absent" => r.owner = None /\ r.expires = None /\ r.attempt = 0

RowsFresh == \A j \in Jobs : Fresh(row[j])

(* What each write of a method leaves behind is consistent whatever the    *)
(* row was when the method read it.                                        *)
LEMMA CompletedIsFresh ==
  ASSUME NEW r \in Row, NEW s \in Terminal PROVE Fresh(Completed(r, s))
  BY DEF Fresh, Completed, Unleased, Row, Terminal

LEMMA RequeuedIsFresh ==
  ASSUME NEW r \in Row, NEW at \in Nat PROVE Fresh(Requeued(r, at))
  BY DEF Fresh, Requeued, Unleased, Row, Terminal

LEMMA FailedIsFresh ==
  ASSUME NEW j \in Jobs, row[j] \in Row, NEW seen \in Nat, NEW at \in Nat
  PROVE  Fresh(Failed(j, seen, at))
  <1>1. Unleased(row[j]) \in Row /\ Unleased(row[j]).owner = None /\ Unleased(row[j]).expires = None
    BY UnleasedIsRow DEF Unleased, Row
  <1> QED
    BY <1>1 DEF Fresh, Failed, Row, Terminal

LEMMA CancelledIsFresh ==
  ASSUME NEW r \in Row, NEW seen PROVE Fresh(CancelledAs(r, seen))
  BY DEF Fresh, CancelledAs, Row, Terminal

LEMMA SweptIsFresh ==
  ASSUME TypeOK, RowsFresh, NEW j \in Jobs PROVE Fresh(Swept(j))
  BY CompletedIsFresh DEF TypeOK, RowsFresh, Swept, Terminal

(* A claimable row is queued, or running under an expired lease: a         *)
(* cancellation whose lease has expired has just been swept.               *)
LEMMA ClaimableRow ==
  ASSUME TypeOK, RowsFresh, NEW j \in Jobs, Claimable(j)
  PROVE  /\ Swept(j) = row[j]
         /\ row[j].attempt < Budget[j]
         /\ \/ row[j].status = "queued" /\ row[j].owner = None
            \/ row[j].status = "running" /\ Expired(row[j])
         /\ ~row[j].completed
  <1>1. row[j] \in Row /\ Fresh(row[j])
    BY DEF TypeOK, RowsFresh
  <1>2. Swept(j).status \in {"queued"} \cup Active
    BY DEF Claimable
  <1>3. Swept(j) = row[j]
    BY <1>1, <1>2 DEF Swept, Completed, Unleased, Row, Active
  <1>4. ~(row[j].status = "cancel_requested" /\ Expired(row[j]))
    BY <1>1, <1>2 DEF Swept, Completed, Unleased, Row, Active
  <1> QED
    BY <1>1, <1>3, <1>4 DEF Claimable, Fresh, Active

LEMMA GrantedIsFresh ==
  ASSUME TypeOK, RowsFresh, NEW j \in Jobs, Claimable(j), NEW id \in WorkerIds
  PROVE  /\ Fresh(Granted(j, id))
         /\ Granted(j, id).status = "running"
         /\ Granted(j, id).owner = id
         /\ Granted(j, id).expires = now + LeaseDuration
         /\ Granted(j, id).attempt = row[j].attempt + 1
  <1>1. row[j] \in Row
    BY DEF TypeOK
  <1>2. now + LeaseDuration # None /\ id # None
    BY TimeAssumption, NoneAssumption DEF TypeOK
  <1>3. Granted(j, id) = [row[j] EXCEPT !.status = "running", !.attempt = row[j].attempt + 1,
                                        !.owner = id, !.expires = now + LeaseDuration]
    BY <1>1, ClaimableRow DEF Granted, Row
  <1> QED
    BY <1>1, <1>2, <1>3, ClaimableRow DEF Fresh, Terminal, Row

(* A heartbeat writes only the expiry, and only of an active row. *)
LEMMA RenewedIsFresh ==
  ASSUME TypeOK, RowsFresh, NEW w \in Workers, worker[w].job \in Jobs,
         HoldsLease(w, worker[w].job)
  PROVE  Fresh([row[worker[w].job] EXCEPT !.expires = now + LeaseDuration])
  <1> DEFINE r == row[worker[w].job]
  <1>1. r \in Row /\ Fresh(r) /\ r.status \in Active
    BY DEF TypeOK, RowsFresh, HoldsLease
  <1>2. now + LeaseDuration # None
    BY TimeAssumption, NoneAssumption DEF TypeOK
  <1> QED
    BY <1>1, <1>2 DEF Fresh, Active, Terminal, Row

LEMMA RowsStep == TypeOK /\ RowsFresh /\ [Next]_vars => RowsFresh'
<1> SUFFICES ASSUME TypeOK, RowsFresh, [Next]_vars PROVE RowsFresh'
  OBVIOUS
<1>1. ASSUME NEW j \in Jobs, Enqueue(j) PROVE RowsFresh'
  BY <1>1 DEF Enqueue, NoRow, RowsFresh, Fresh, Terminal, TypeOK
<1>2. ASSUME NEW w \in Workers, NEW j \in Jobs, ClaimJob(w, j) PROVE RowsFresh'
  <2>1. Identity[w] \in WorkerIds
    BY IdentityAssumption
  <2>2. Fresh(Granted(j, Identity[w]))
    BY <1>2, <2>1, GrantedIsFresh DEF ClaimJob, NextInLine
  <2> QED
    BY <1>2, <2>2, SweptIsFresh DEF ClaimJob, RowsFresh
<1>3. ASSUME NEW w \in Workers, ClaimNothing(w) PROVE RowsFresh'
  BY <1>3, SweptIsFresh DEF ClaimNothing, RowsFresh
<1>4. ASSUME NEW w \in Workers, CheckpointRenews(w) \/ CheckpointCancels(w) PROVE RowsFresh'
  <2>1. worker[w].job \in Jobs /\ HoldsLease(w, worker[w].job)
    BY <1>4 DEF CheckpointRenews, CheckpointCancels, AtCheckpoint, TypeOK, Stopped
  <2>2. row' = [row EXCEPT ![worker[w].job] =
                   [row[worker[w].job] EXCEPT !.expires = now + LeaseDuration]]
    BY <1>4 DEF CheckpointRenews, CheckpointCancels, Renewed
  <2> QED
    BY <2>1, <2>2, RenewedIsFresh DEF RowsFresh, TypeOK
<1>5. ASSUME NEW w \in Workers, FinishWrites(w) PROVE RowsFresh'
  <2>1. worker[w].job \in Jobs
    BY <1>5 DEF FinishWrites, TypeOK, Stopped
  <2>2. PICK s \in Terminal : row' = [row EXCEPT ![worker[w].job] = Completed(@, s)]
    BY <1>5 DEF FinishWrites, Terminal
  <2> QED
    BY <2>1, <2>2, CompletedIsFresh DEF RowsFresh, TypeOK
<1>6. ASSUME NEW w \in Workers, FailWrites(w) PROVE RowsFresh'
  <2>1. worker[w].job \in Jobs /\ worker[w].seen \in Nat /\ worker[w].at \in Nat
    BY <1>6 DEF FailWrites, TypeOK, Stopped, WorkerState
  <2>2. Fresh(Failed(worker[w].job, worker[w].seen, worker[w].at))
    BY <2>1, FailedIsFresh DEF TypeOK
  <2> QED
    BY <1>6, <2>1, <2>2 DEF FailWrites, RowsFresh, TypeOK
<1>7. ASSUME NEW c \in Clients, CancelWrites(c) PROVE RowsFresh'
  <2>1. client[c].job \in Jobs
    BY <1>7 DEF CancelWrites, TypeOK, Request
  <2> QED
    BY <1>7, <2>1, CancelledIsFresh DEF CancelWrites, RowsFresh, TypeOK
<1>8. ASSUME NEW c \in Clients, RetryWrites(c) PROVE RowsFresh'
  <2>1. client[c].job \in Jobs /\ client[c].at \in Nat
    BY <1>8 DEF RetryWrites, TypeOK, Request
  <2> QED
    BY <1>8, <2>1, RequeuedIsFresh DEF RetryWrites, RowsFresh, TypeOK
<1>9. CASE UNCHANGED row
  BY <1>9 DEF RowsFresh
<1>10. ASSUME NEW w \in Workers,
              \/ CheckpointLosesLease(w) \/ HandlerReturns(w) \/ HandlerFails(w)
              \/ FinishReads(w) \/ FinishEscapes(w) \/ FailEscapes(w)
              \/ Crash(w) \/ Restart(w) \/ Revive(w)
       PROVE  UNCHANGED row
  BY <1>10 DEF CheckpointLosesLease, HandlerReturns, HandlerFails, FinishReads,
               FinishEscapes, FailEscapes, Crash, Restart, Revive
<1>11. ASSUME NEW c \in Clients, NEW j \in Jobs, CancelReads(c, j) \/ RetryReads(c, j)
       PROVE  UNCHANGED row
  BY <1>11 DEF CancelReads, RetryReads, Asks
<1>12. Tick \/ UNCHANGED vars => UNCHANGED row
  BY DEF Tick, vars
<1> QED
  BY <1>1, <1>2, <1>3, <1>4, <1>5, <1>6, <1>7, <1>8, <1>9, <1>10, <1>11, <1>12
     DEF Next, RunOnce, ClientStep

LEMMA RowsAlwaysFresh == Spec => [](TypeOK /\ RowsFresh)
<1>1. Init => TypeOK /\ RowsFresh
  BY DEF Init, TypeOK, NoRow, Row, Idle, NoRequest, WorkerState, Request, WorkerPCs,
         RowsFresh, Fresh, Terminal
<1> QED
  BY <1>1, TypeStep, RowsStep, PTL DEF Spec

(* Whatever methods interleave, a running job has an unfinished lease and  *)
(* no completion time: a crashed worker's job can always be reclaimed.     *)
THEOREM RunningAlwaysLeased == Spec => []RunningIsLeased
<1>1. RowsFresh => RunningIsLeased
  BY DEF RowsFresh, Fresh, RunningIsLeased
<1> QED
  BY <1>1, RowsAlwaysFresh, PTL

(* A queued job carries nothing over from its earlier attempts. *)
THEOREM QueuedAlwaysFresh == Spec => []QueuedIsFresh
<1>1. RowsFresh => QueuedIsFresh
  BY DEF RowsFresh, Fresh, QueuedIsFresh
<1> QED
  BY <1>1, RowsAlwaysFresh, PTL

(* A settled job has its completion time, whichever write came last. *)
THEOREM TerminalAlwaysCompleted == Spec => []TerminalIsCompleted
<1>1. RowsFresh => TerminalIsCompleted
  BY DEF RowsFresh, Fresh, TerminalIsCompleted
<1> QED
  BY <1>1, RowsAlwaysFresh, PTL

-------------------------------------------------------------------------------
(* The queue implements the lease protocol. *)

(* The leases a sweep clears have expired. *)
LEMMA SweptLease ==
  ASSUME TypeOK, NEW j \in Jobs
  PROVE  /\ Swept(j).attempt = row[j].attempt
         /\ \/ Swept(j) = row[j]
            \/ Swept(j).owner = None /\ Swept(j).expires = None /\ Expired(row[j])
  BY DEF TypeOK, Swept, Completed, Unleased, Row

(* In the abstract state the step only touches jobs in S and job j. *)
LEMMA ClaimIsGrant ==
  ASSUME TypeOK, RowsFresh, NEW w \in Workers, NEW j \in Jobs, ClaimJob(w, j)
  PROVE  Leases!Next
<1> DEFINE S == {k \in Jobs \ {j} : Swept(k) # row[k]}
<1>1. Identity[w] \in WorkerIds /\ S \in SUBSET Jobs /\ j \notin S
  BY IdentityAssumption
<1>2. /\ row' = [k \in Jobs |-> IF k = j THEN Granted(j, Identity[w]) ELSE Swept(k)]
      /\ now' = now
      /\ Claimable(j)
  BY <1>1 DEF ClaimJob, NextInLine
<1>3. Leases!Free(j) /\ row[j].attempt < Budget[j]
  BY <1>2, ClaimableRow DEF Leases!Free, Expired
<1>4. \A k \in S : Leases!Free(k)
  BY SweptLease DEF Leases!Free, Expired
<1>5. /\ Granted(j, Identity[w]).owner = Identity[w]
      /\ Granted(j, Identity[w]).expires = now + LeaseDuration
      /\ Granted(j, Identity[w]).attempt = row[j].attempt + 1
  BY <1>1, <1>2, GrantedIsFresh
<1>6. \A k \in Jobs \ {j} : /\ Swept(k).owner = IF k \in S THEN None ELSE row[k].owner
                            /\ Swept(k).expires = IF k \in S THEN None ELSE row[k].expires
                            /\ Swept(k).attempt = row[k].attempt
  BY SweptLease
<1>7. Leases!Grant(S, j, Identity[w])
  BY <1>1, <1>2, <1>3, <1>4, <1>5, <1>6 DEF Leases!Grant
<1> QED
  BY <1>1, <1>7 DEF Leases!Next

LEMMA SweepIsDrop ==
  ASSUME TypeOK, NEW w \in Workers, ClaimNothing(w)
  PROVE  Leases!Next
<1>0. PICK S \in SUBSET Jobs : S = {k \in Jobs : Swept(k) # row[k]}
  OBVIOUS
<1>1. row' = [k \in Jobs |-> Swept(k)] /\ now' = now
  BY DEF ClaimNothing
<1>2. ASSUME NEW k \in Jobs
      PROVE  /\ Swept(k).owner = IF k \in S THEN None ELSE row[k].owner
             /\ Swept(k).expires = IF k \in S THEN None ELSE row[k].expires
             /\ Swept(k).attempt = row[k].attempt
  BY <1>0, SweptLease
<1>3. Leases!Drop(S)
  BY <1>1, <1>2 DEF Leases!Drop
<1> QED
  BY <1>3 DEF Leases!Next

LEMMA HeartbeatIsRenew ==
  ASSUME TypeOK, NEW w \in Workers, CheckpointRenews(w) \/ CheckpointCancels(w)
  PROVE  Leases!Next
<1>1. PICK j \in Jobs : j = worker[w].job /\ HoldsLease(w, worker[w].job)
  BY DEF CheckpointRenews, CheckpointCancels, AtCheckpoint, TypeOK, Stopped
<1>2. /\ row' = [row EXCEPT ![j] = [row[j] EXCEPT !.expires = now + LeaseDuration]]
      /\ now' = now
  BY <1>1 DEF CheckpointRenews, CheckpointCancels, Renewed
<1>3. row[j].owner # None /\ row[j].expires > now
  BY <1>1, IdentityAssumption, NoneAssumption DEF HoldsLease, Unexpired
<1>4. /\ row[j] \in Row
      /\ [row[j] EXCEPT !.expires = now + LeaseDuration].owner = row[j].owner
      /\ [row[j] EXCEPT !.expires = now + LeaseDuration].attempt = row[j].attempt
      /\ [row[j] EXCEPT !.expires = now + LeaseDuration].expires = now + LeaseDuration
  BY <1>1 DEF TypeOK, Row
<1>5. Leases!Renew(j)
  BY <1>1, <1>2, <1>3, <1>4 DEF Leases!Renew, TypeOK
<1> QED
  BY <1>5 DEF Leases!Next

(* A write that unleases one row drops its lease; a retry also refills it. *)
LEMMA UnleasingIsDrop ==
  ASSUME TypeOK, NEW j \in Jobs, NEW r, row' = [row EXCEPT ![j] = r], now' = now,
         r.owner = None, r.expires = None, r.attempt \in {0, row[j].attempt}
  PROVE  Leases!Next
<1>1. CASE r.attempt = row[j].attempt
  <2>1. Leases!Drop({j})
    BY <1>1 DEF Leases!Drop, TypeOK
  <2> QED
    BY <2>1 DEF Leases!Next
<1>2. CASE r.attempt = 0
  <2>1. Leases!Refill(j)
    BY <1>2 DEF Leases!Refill, TypeOK
  <2> QED
    BY <2>1 DEF Leases!Next
<1> QED
  BY <1>1, <1>2

(* Every step of the queue is a step of the lease protocol or leaves it    *)
(* alone.                                                                  *)
LEMMA LeaseStep == TypeOK /\ RowsFresh /\ [Next]_vars => [Leases!Next]_(Leases!vars)
<1> SUFFICES ASSUME TypeOK, RowsFresh, [Next]_vars PROVE Leases!Next \/ UNCHANGED Leases!vars
  OBVIOUS
<1>1. ASSUME NEW j \in Jobs, Enqueue(j) PROVE UNCHANGED Leases!vars
  <2>1. row[j].owner = None /\ row[j].expires = None /\ row[j].attempt = 0
    BY <1>1 DEF Enqueue, RowsFresh, Fresh
  <2> QED
    BY <1>1, <2>1 DEF Enqueue, NoRow, Leases!vars, TypeOK
<1>2. ASSUME NEW w \in Workers, NEW j \in Jobs, ClaimJob(w, j) PROVE Leases!Next
  BY <1>2, ClaimIsGrant
<1>3. ASSUME NEW w \in Workers, ClaimNothing(w) PROVE Leases!Next
  BY <1>3, SweepIsDrop
<1>4. ASSUME NEW w \in Workers, CheckpointRenews(w) \/ CheckpointCancels(w) PROVE Leases!Next
  BY <1>4, HeartbeatIsRenew
<1>5. ASSUME NEW w \in Workers, FinishWrites(w) PROVE Leases!Next
  <2>1. worker[w].job \in Jobs /\ now' = now
    BY <1>5 DEF FinishWrites, TypeOK, Stopped
  <2>2. PICK s \in Terminal : row' = [row EXCEPT ![worker[w].job] = Completed(row[worker[w].job], s)]
    BY <1>5 DEF FinishWrites, Terminal
  <2>3. /\ Completed(row[worker[w].job], s).owner = None
        /\ Completed(row[worker[w].job], s).expires = None
        /\ Completed(row[worker[w].job], s).attempt = row[worker[w].job].attempt
    BY <2>1 DEF Completed, Unleased, TypeOK, Row
  <2> QED
    BY <2>1, <2>2, <2>3, UnleasingIsDrop
<1>6. ASSUME NEW w \in Workers, FailWrites(w) PROVE Leases!Next
  <2> DEFINE r == Failed(worker[w].job, worker[w].seen, worker[w].at)
  <2>1. worker[w].job \in Jobs /\ now' = now
    BY <1>6 DEF FailWrites, TypeOK, Stopped
  <2>2. row' = [row EXCEPT ![worker[w].job] = r]
    BY <1>6 DEF FailWrites
  <2>3. r.owner = None /\ r.expires = None /\ r.attempt = row[worker[w].job].attempt
    BY <2>1 DEF Failed, Unleased, TypeOK, Row
  <2> QED
    BY <2>1, <2>2, <2>3, UnleasingIsDrop
<1>7. ASSUME NEW c \in Clients, CancelWrites(c) PROVE UNCHANGED Leases!vars
  <2>1. client[c].job \in Jobs /\ now' = now
    BY <1>7 DEF CancelWrites, TypeOK, Request
  <2>2. row' = [row EXCEPT ![client[c].job] = CancelledAs(row[client[c].job], client[c].seen)]
    BY <1>7 DEF CancelWrites
  <2>3. LET r == CancelledAs(row[client[c].job], client[c].seen)
        IN  /\ r.owner = row[client[c].job].owner
            /\ r.expires = row[client[c].job].expires
            /\ r.attempt = row[client[c].job].attempt
    BY <2>1 DEF CancelledAs, TypeOK, Row
  <2> QED
    BY <2>1, <2>2, <2>3 DEF Leases!vars, TypeOK
<1>8. ASSUME NEW c \in Clients, RetryWrites(c) PROVE Leases!Next
  <2>1. client[c].job \in Jobs /\ now' = now
    BY <1>8 DEF RetryWrites, TypeOK, Request
  <2>2. row' = [row EXCEPT ![client[c].job] = Requeued(row[client[c].job], client[c].at)]
    BY <1>8 DEF RetryWrites
  <2>3. LET r == Requeued(row[client[c].job], client[c].at)
        IN  r.owner = None /\ r.expires = None /\ r.attempt = 0
    BY <2>1 DEF Requeued, Unleased, TypeOK, Row
  <2> QED
    BY <2>1, <2>2, <2>3, UnleasingIsDrop
<1>9. CASE Tick
  <2>1. Leases!Pass
    BY <1>9 DEF Tick, Leases!Pass
  <2> QED
    BY <2>1 DEF Leases!Next
<1>10. ASSUME NEW w \in Workers,
              \/ CheckpointLosesLease(w) \/ HandlerReturns(w) \/ HandlerFails(w)
              \/ FinishReads(w) \/ FinishEscapes(w) \/ FailEscapes(w)
              \/ Crash(w) \/ Restart(w) \/ Revive(w)
       PROVE  UNCHANGED Leases!vars
  BY <1>10 DEF CheckpointLosesLease, HandlerReturns, HandlerFails, FinishReads,
               FinishEscapes, FailEscapes, Crash, Restart, Revive, Leases!vars
<1>11. ASSUME NEW c \in Clients, NEW j \in Jobs, CancelReads(c, j) \/ RetryReads(c, j)
       PROVE  UNCHANGED Leases!vars
  BY <1>11 DEF CancelReads, RetryReads, Asks, Leases!vars
<1>12. UNCHANGED vars => UNCHANGED Leases!vars
  BY DEF vars, Leases!vars
<1> QED
  BY <1>1, <1>2, <1>3, <1>4, <1>5, <1>6, <1>7, <1>8, <1>9, <1>10, <1>11, <1>12
     DEF Next, RunOnce, ClientStep

(* Leases are granted only when free and within budget, renewed only while *)
(* unexpired: for all budgets, lease durations, ids, stalls and races.     *)
THEOREM LeaseRefinement == Spec => LeaseSpec
<1>1. Init => Leases!Init
  BY DEF Init, NoRow, Leases!Init
<1> QED
  BY <1>1, LeaseStep, RowsAlwaysFresh, PTL DEF Spec, LeaseSpec, Leases!Spec

-------------------------------------------------------------------------------
(* The attempt budget, when no two workers share an id. *)

(* A worker about to write a failure either has lost its lease to another  *)
(* worker (or to a retry), or the attempt it read is still the current one. *)
FailuresAreCurrent ==
    \A w \in Workers :
        worker[w].pc = "fail_write" /\ row[worker[w].job].owner = Identity[w]
            => row[worker[w].job].attempt = worker[w].seen

(* Only a write that changes the owner or ends the lease touches attempts.  *)
KeepsAttempts(j) ==
    \/ row'[j].owner = None
    \/ row'[j].attempt = row[j].attempt /\ row'[j].owner = row[j].owner

LEMMA KeptFailures ==
  ASSUME TypeOK, FailuresAreCurrent, NEW w \in Workers,
         KeepsAttempts(worker[w].job),
         \/ worker'[w].pc # "fail_write"
         \/ worker'[w].job = worker[w].job /\ worker'[w].seen = worker[w].seen
                /\ worker[w].pc = "fail_write"
  PROVE  worker'[w].pc = "fail_write" /\ row'[worker'[w].job].owner = Identity[w]
             => row'[worker'[w].job].attempt = worker'[w].seen
  BY IdentityAssumption, NoneAssumption DEF FailuresAreCurrent, KeepsAttempts

(* A worker's record is its own: a step of one leaves the others alone. *)
LEMMA OwnRecord ==
  ASSUME NEW w \in Workers, NEW r, worker \in [Workers -> WorkerState],
         worker' = [worker EXCEPT ![w] = r], r.pc # "fail_write"
  PROVE  \A v \in Workers : \/ worker'[v].pc # "fail_write"
                            \/ worker'[v] = worker[v]
  OBVIOUS

LEMMA FailuresStep ==
  ASSUME \A v, w \in Workers : Identity[v] = Identity[w] => v = w,
         TypeOK, RowsFresh, FailuresAreCurrent, [Next]_vars
  PROVE  FailuresAreCurrent'
<1>1. ASSUME NEW j \in Jobs, Enqueue(j) PROVE FailuresAreCurrent'
  <2>1. \A k \in Jobs : KeepsAttempts(k)
    BY <1>1 DEF Enqueue, NoRow, KeepsAttempts, TypeOK
  <2>2. \A w \in Workers : worker[w].pc = "fail_write" => worker[w].job \in Jobs
    BY DEF TypeOK, Stopped
  <2> QED
    BY <1>1, <2>1, <2>2, KeptFailures DEF Enqueue, FailuresAreCurrent
<1>2. ASSUME NEW w \in Workers, NEW j \in Jobs, ClaimJob(w, j) PROVE FailuresAreCurrent'
  <2>1. worker[w].pc = "idle" /\ Identity[w] \in WorkerIds /\ Claimable(j)
    BY <1>2, IdentityAssumption DEF ClaimJob, NextInLine
  <2>2. Granted(j, Identity[w]).owner = Identity[w]
    BY <2>1, GrantedIsFresh
  <2>3. row' = [k \in Jobs |-> IF k = j THEN Granted(j, Identity[w]) ELSE Swept(k)]
    BY <1>2 DEF ClaimJob
  <2>4. \A v \in Workers \ {w} : worker'[v] = worker[v]
    BY <1>2 DEF ClaimJob, TypeOK
  <2>5. worker'[w].pc # "fail_write"
    BY <1>2 DEF ClaimJob, TypeOK, WorkerState, Idle
  <2>6. ASSUME NEW v \in Workers \ {w}, worker[v].pc = "fail_write",
               row'[worker[v].job].owner = Identity[v]
        PROVE  row'[worker[v].job].attempt = worker[v].seen
    <3>1. worker[v].job \in Jobs
      BY <2>6 DEF TypeOK, Stopped
    <3>2. worker[v].job # j
      BY <2>2, <2>3, <2>6
    <3>3. row'[worker[v].job] = Swept(worker[v].job)
      BY <2>3, <3>1, <3>2
    <3>4. Swept(worker[v].job) = row[worker[v].job]
      BY <2>6, <3>1, <3>3, SweptLease, IdentityAssumption, NoneAssumption
    <3> QED
      BY <2>6, <3>3, <3>4 DEF FailuresAreCurrent
  <2> QED
    BY <2>4, <2>5, <2>6 DEF FailuresAreCurrent
<1>3. ASSUME NEW w \in Workers, ClaimNothing(w) PROVE FailuresAreCurrent'
  <2>1. ASSUME NEW k \in Jobs PROVE KeepsAttempts(k)
    BY <1>3, SweptLease DEF ClaimNothing, KeepsAttempts
  <2>2. \A v \in Workers : worker[v].pc = "fail_write" => worker[v].job \in Jobs
    BY DEF TypeOK, Stopped
  <2> QED
    BY <1>3, <2>1, <2>2, KeptFailures DEF ClaimNothing, FailuresAreCurrent
<1>4. ASSUME NEW w \in Workers, CheckpointRenews(w) \/ CheckpointCancels(w)
      PROVE  FailuresAreCurrent'
  <2>1. worker[w].job \in Jobs /\ worker[w].pc # "fail_write"
    BY <1>4 DEF CheckpointRenews, CheckpointCancels, AtCheckpoint, TypeOK, Stopped
  <2>2. row' = [row EXCEPT ![worker[w].job] =
                   [row[worker[w].job] EXCEPT !.expires = now + LeaseDuration]]
    BY <1>4 DEF CheckpointRenews, CheckpointCancels, Renewed
  <2>3. ASSUME NEW k \in Jobs PROVE KeepsAttempts(k)
    BY <2>1, <2>2 DEF KeepsAttempts, TypeOK, Row
  <2>4. PICK pc \in {"handler", "succeed", "cancel"} : worker' = Counted(w, pc)
    BY <1>4 DEF CheckpointRenews, CheckpointCancels, AtCheckpoint
  <2>5. \A v \in Workers : worker'[v].pc # "fail_write" \/ worker'[v] = worker[v]
    BY <2>4 DEF Counted, TypeOK, WorkerState
  <2>6. \A v \in Workers : worker[v].pc = "fail_write" => worker[v].job \in Jobs
    BY DEF TypeOK, Stopped
  <2> QED
    BY <2>3, <2>5, <2>6, KeptFailures DEF FailuresAreCurrent
<1>5. ASSUME NEW w \in Workers, FinishReads(w) PROVE FailuresAreCurrent'
  <2>1. PICK finish \in Finishing : worker' = [worker EXCEPT ![w] =
            [@ EXCEPT !.pc = WritePC[finish], !.at = now,
                      !.seen = row[worker[w].job].attempt]]
    BY <1>5 DEF FinishReads
  <2>2. row' = row
    BY <1>5 DEF FinishReads
  <2>3. worker'[w].job = worker[w].job /\ worker'[w].seen = row[worker[w].job].attempt
    BY <2>1 DEF TypeOK, WorkerState
  <2>4. \A v \in Workers \ {w} : worker'[v] = worker[v]
    BY <2>1 DEF TypeOK
  <2> QED
    BY <2>2, <2>3, <2>4 DEF FailuresAreCurrent
<1>6. ASSUME NEW w \in Workers, FinishWrites(w) PROVE FailuresAreCurrent'
  <2>1. worker[w].job \in Jobs
    BY <1>6 DEF FinishWrites, TypeOK, Stopped
  <2>2. PICK s \in Terminal : row' = [row EXCEPT ![worker[w].job] = Completed(row[worker[w].job], s)]
    BY <1>6 DEF FinishWrites, Terminal
  <2>3. ASSUME NEW k \in Jobs PROVE KeepsAttempts(k)
    BY <2>1, <2>2 DEF KeepsAttempts, Completed, Unleased, TypeOK, Row
  <2>4. \A v \in Workers : worker'[v].pc # "fail_write" \/ worker'[v] = worker[v]
    BY <1>6 DEF FinishWrites, Idle, TypeOK
  <2>5. \A v \in Workers : worker[v].pc = "fail_write" => worker[v].job \in Jobs
    BY DEF TypeOK, Stopped
  <2> QED
    BY <2>3, <2>4, <2>5, KeptFailures DEF FailuresAreCurrent
<1>7. ASSUME NEW w \in Workers, FailWrites(w) PROVE FailuresAreCurrent'
  <2> DEFINE r == Failed(worker[w].job, worker[w].seen, worker[w].at)
  <2>1. worker[w].job \in Jobs /\ row' = [row EXCEPT ![worker[w].job] = r]
    BY <1>7 DEF FailWrites, TypeOK, Stopped
  <2>2. r.owner = None
    BY <2>1 DEF Failed, Unleased, TypeOK, Row
  <2>3. ASSUME NEW k \in Jobs PROVE KeepsAttempts(k)
    BY <2>1, <2>2 DEF KeepsAttempts, TypeOK
  <2>4. \A v \in Workers : worker'[v].pc # "fail_write" \/ worker'[v] = worker[v]
    BY <1>7 DEF FailWrites, Idle, TypeOK
  <2>5. \A v \in Workers : worker[v].pc = "fail_write" => worker[v].job \in Jobs
    BY DEF TypeOK, Stopped
  <2> QED
    BY <2>3, <2>4, <2>5, KeptFailures DEF FailuresAreCurrent
<1>8. ASSUME NEW c \in Clients, CancelWrites(c) \/ RetryWrites(c) PROVE FailuresAreCurrent'
  <2>1. client[c].job \in Jobs /\ worker' = worker
    BY <1>8 DEF CancelWrites, RetryWrites, TypeOK, Request
  <2>2. PICK r : /\ row' = [row EXCEPT ![client[c].job] = r]
                 /\ \/ r.owner = None
                    \/ r.owner = row[client[c].job].owner /\ r.attempt = row[client[c].job].attempt
    <3>1. CancelledAs(row[client[c].job], client[c].seen).owner = row[client[c].job].owner
      BY <2>1 DEF CancelledAs, TypeOK, Row
    <3>2. CancelledAs(row[client[c].job], client[c].seen).attempt = row[client[c].job].attempt
      BY <2>1 DEF CancelledAs, TypeOK, Row
    <3>3. Requeued(row[client[c].job], client[c].at).owner = None
      BY <2>1 DEF Requeued, Unleased, TypeOK, Row
    <3> QED
      BY <1>8, <3>1, <3>2, <3>3 DEF CancelWrites, RetryWrites
  <2>3. ASSUME NEW k \in Jobs PROVE KeepsAttempts(k)
    BY <2>1, <2>2 DEF KeepsAttempts, TypeOK
  <2>4. \A v \in Workers : worker[v].pc = "fail_write" => worker[v].job \in Jobs
    BY DEF TypeOK, Stopped
  <2> QED
    BY <2>1, <2>3, <2>4, KeptFailures DEF FailuresAreCurrent
<1>9. ASSUME NEW w \in Workers, CheckpointLosesLease(w) PROVE FailuresAreCurrent'
  <2>1. PICK pc \in {"handler", "fail"} : worker' = Counted(w, pc)
    BY <1>9 DEF CheckpointLosesLease
  <2>2. row' = row
    BY <1>9 DEF CheckpointLosesLease
  <2>3. \A v \in Workers : worker'[v].pc # "fail_write" \/ worker'[v] = worker[v]
    BY <2>1 DEF Counted, TypeOK, WorkerState
  <2> QED
    BY <2>2, <2>3 DEF FailuresAreCurrent
<1>10. ASSUME NEW w \in Workers,
              \/ HandlerReturns(w) \/ HandlerFails(w) \/ FinishEscapes(w) \/ FailEscapes(w)
              \/ Crash(w) \/ Restart(w) \/ Revive(w)
       PROVE  FailuresAreCurrent'
  <2>1. row' = row
    BY <1>10 DEF HandlerReturns, HandlerFails, FinishEscapes, FailEscapes, Crash, Restart, Revive
  <2>2. \A v \in Workers : worker'[v].pc # "fail_write" \/ worker'[v] = worker[v]
    BY <1>10 DEF HandlerReturns, HandlerFails, FinishEscapes, FailEscapes, Crash, Restart,
                 Revive, Idle, TypeOK, WorkerState
  <2> QED
    BY <2>1, <2>2 DEF FailuresAreCurrent
<1>11. ASSUME NEW c \in Clients, NEW j \in Jobs, CancelReads(c, j) \/ RetryReads(c, j)
       PROVE  FailuresAreCurrent'
  BY <1>11 DEF CancelReads, RetryReads, Asks, FailuresAreCurrent
<1>12. Tick \/ UNCHANGED vars => FailuresAreCurrent'
  BY DEF Tick, vars, FailuresAreCurrent
<1> QED
  BY <1>1, <1>2, <1>3, <1>4, <1>5, <1>6, <1>7, <1>8, <1>9, <1>10, <1>11, <1>12
     DEF Next, RunOnce, ClientStep

LEMMA AttemptsStep ==
  ASSUME TypeOK, RowsFresh, FailuresAreCurrent, AttemptsWithinBudget, [Next]_vars
  PROVE  AttemptsWithinBudget'
<1> DEFINE Within(k, r) == /\ r.attempt <= Budget[k]
                           /\ r.status = "queued" => r.attempt < Budget[k]
<1>0. \A k \in Jobs : Within(k, row[k]) /\ Budget[k] \in Nat \ {0} /\ row[k] \in Row
  BY BudgetAssumption DEF AttemptsWithinBudget, TypeOK
<1>1. ASSUME NEW j \in Jobs, Enqueue(j) PROVE AttemptsWithinBudget'
  BY <1>0, <1>1 DEF Enqueue, NoRow, AttemptsWithinBudget, TypeOK
<1>2. \A k \in Jobs : Within(k, Swept(k))
  BY <1>0, SweptLease DEF Swept, Completed, Unleased, Row
<1>3. ASSUME NEW w \in Workers, NEW j \in Jobs, ClaimJob(w, j) PROVE AttemptsWithinBudget'
  <2>1. Identity[w] \in WorkerIds /\ Claimable(j)
    BY <1>3, IdentityAssumption DEF ClaimJob, NextInLine
  <2>2. row[j].attempt < Budget[j] /\ row[j].attempt \in Nat
    BY <1>0, <2>1, ClaimableRow DEF Row
  <2>3. Within(j, Granted(j, Identity[w]))
    BY <1>0, <2>1, <2>2, GrantedIsFresh
  <2>4. row' = [k \in Jobs |-> IF k = j THEN Granted(j, Identity[w]) ELSE Swept(k)]
    BY <1>3 DEF ClaimJob
  <2> QED
    BY <1>2, <2>3, <2>4 DEF AttemptsWithinBudget
<1>4. ASSUME NEW w \in Workers, ClaimNothing(w) PROVE AttemptsWithinBudget'
  BY <1>2, <1>4 DEF ClaimNothing, AttemptsWithinBudget
<1>5. ASSUME NEW j \in Jobs, NEW r, Within(j, r), row' = [row EXCEPT ![j] = r]
      PROVE  AttemptsWithinBudget'
  BY <1>0, <1>5 DEF AttemptsWithinBudget, TypeOK
<1>6. ASSUME NEW w \in Workers, CheckpointRenews(w) \/ CheckpointCancels(w)
      PROVE  AttemptsWithinBudget'
  <2>1. worker[w].job \in Jobs
    BY <1>6 DEF CheckpointRenews, CheckpointCancels, AtCheckpoint, TypeOK, Stopped
  <2>2. row' = [row EXCEPT ![worker[w].job] =
                   [row[worker[w].job] EXCEPT !.expires = now + LeaseDuration]]
    BY <1>6 DEF CheckpointRenews, CheckpointCancels, Renewed
  <2>3. Within(worker[w].job, [row[worker[w].job] EXCEPT !.expires = now + LeaseDuration])
    BY <1>0, <2>1 DEF Row
  <2> QED
    BY <1>5, <2>1, <2>2, <2>3
<1>7. ASSUME NEW w \in Workers, FinishWrites(w) PROVE AttemptsWithinBudget'
  <2>1. worker[w].job \in Jobs
    BY <1>7 DEF FinishWrites, TypeOK, Stopped
  <2>2. PICK s \in Terminal : row' = [row EXCEPT ![worker[w].job] = Completed(row[worker[w].job], s)]
    BY <1>7 DEF FinishWrites, Terminal
  <2>3. Within(worker[w].job, Completed(row[worker[w].job], s))
    BY <1>0, <2>1 DEF Completed, Unleased, Row, Terminal
  <2> QED
    BY <1>5, <2>1, <2>2, <2>3
<1>8. ASSUME NEW w \in Workers, FailWrites(w) PROVE AttemptsWithinBudget'
  <2> DEFINE r == Failed(worker[w].job, worker[w].seen, worker[w].at)
  <2>1. worker[w].job \in Jobs /\ row' = [row EXCEPT ![worker[w].job] = r]
    BY <1>8 DEF FailWrites, TypeOK, Stopped
  <2>2. row[worker[w].job].attempt = worker[w].seen
    BY <1>8 DEF FailWrites, FailuresAreCurrent
  <2>3. r.attempt = worker[w].seen
    BY <1>0, <2>1, <2>2 DEF Failed, Unleased, Row
  <2>4. r.status = "queued" => ~(worker[w].seen >= Budget[worker[w].job])
    BY <1>0, <2>1 DEF Failed, Unleased, Row
  <2>5. Within(worker[w].job, r)
    BY <1>0, <2>1, <2>2, <2>3, <2>4 DEF Row
  <2> QED
    BY <1>5, <2>1, <2>5
<1>9. ASSUME NEW c \in Clients, CancelWrites(c) PROVE AttemptsWithinBudget'
  <2>1. client[c].job \in Jobs
    BY <1>9 DEF CancelWrites, TypeOK, Request
  <2>2. Within(client[c].job, CancelledAs(row[client[c].job], client[c].seen))
    BY <1>0, <2>1 DEF CancelledAs, Row
  <2> QED
    BY <1>5, <1>9, <2>1, <2>2 DEF CancelWrites
<1>10. ASSUME NEW c \in Clients, RetryWrites(c) PROVE AttemptsWithinBudget'
  <2>1. client[c].job \in Jobs
    BY <1>10 DEF RetryWrites, TypeOK, Request
  <2>2. Requeued(row[client[c].job], client[c].at).attempt = 0
    BY <1>0, <2>1 DEF Requeued, Unleased, Row
  <2>3. Within(client[c].job, Requeued(row[client[c].job], client[c].at))
    BY <1>0, <2>1, <2>2
  <2> QED
    BY <1>5, <1>10, <2>1, <2>3 DEF RetryWrites
<1>11. CASE UNCHANGED row
  BY <1>11 DEF AttemptsWithinBudget
<1>12. ASSUME NEW w \in Workers,
              \/ CheckpointLosesLease(w) \/ HandlerReturns(w) \/ HandlerFails(w)
              \/ FinishReads(w) \/ FinishEscapes(w) \/ FailEscapes(w)
              \/ Crash(w) \/ Restart(w) \/ Revive(w)
       PROVE  UNCHANGED row
  BY <1>12 DEF CheckpointLosesLease, HandlerReturns, HandlerFails, FinishReads,
               FinishEscapes, FailEscapes, Crash, Restart, Revive
<1>13. ASSUME NEW c \in Clients, NEW j \in Jobs, CancelReads(c, j) \/ RetryReads(c, j)
       PROVE  UNCHANGED row
  BY <1>13 DEF CancelReads, RetryReads, Asks
<1>14. Tick \/ UNCHANGED vars => UNCHANGED row
  BY DEF Tick, vars
<1> QED
  BY <1>1, <1>3, <1>4, <1>6, <1>7, <1>8, <1>9, <1>10, <1>11, <1>12, <1>13, <1>14
     DEF Next, RunOnce, ClientStep

(* When no two workers share an id, no interleaving starts a job more      *)
(* often than its budget allows or queues it without an attempt left.      *)
THEOREM AttemptsBounded ==
  ASSUME \A v, w \in Workers : Identity[v] = Identity[w] => v = w
  PROVE  Spec => []AttemptsWithinBudget
<1>1. Init => TypeOK /\ RowsFresh /\ FailuresAreCurrent /\ AttemptsWithinBudget
  BY BudgetAssumption
     DEF Init, TypeOK, NoRow, Row, Idle, NoRequest, WorkerState, Request, WorkerPCs,
         RowsFresh, Fresh, Terminal, FailuresAreCurrent, AttemptsWithinBudget
<1>2. TypeOK /\ RowsFresh /\ FailuresAreCurrent /\ AttemptsWithinBudget /\ [Next]_vars
          => (TypeOK /\ RowsFresh /\ FailuresAreCurrent /\ AttemptsWithinBudget)'
  BY TypeStep, RowsStep, FailuresStep, AttemptsStep
<1> QED
  BY <1>1, <1>2, PTL DEF Spec

-------------------------------------------------------------------------------
(* Nobody interferes: no client cancels or retries, no two workers share   *)
(* an id, and a lease does not run out between the SELECT and the UPDATE   *)
(* of the method that ends an attempt.                                     *)
Undisturbed ==
    /\ Clients = {}
    /\ \A v, w \in Workers : Identity[v] = Identity[w] => v = w
    /\ MaxStall = 0 \/ TimelyWorkers

Attempting == {"begin", "handler", "closing"} \cup Finishing \cup Writing

(* No cancellation is pending, in a row or in a worker. *)
NothingCancelled ==
    /\ \A j \in Jobs : row[j].status # "cancel_requested"
    /\ \A w \in Workers : worker[w].pc \notin {"cancel", "cancel_write"}

(* A worker about to write an outcome holds the lease of the attempt whose *)
(* row it read.                                                            *)
WritersHold ==
    \A w \in Workers : worker[w].pc \in Writing =>
        /\ HoldsLease(w, worker[w].job)
        /\ row[worker[w].job].attempt = worker[w].seen
        /\ worker[w].at <= now

(* A live worker holds the lease of its job all along. *)
AttemptersHold ==
    \A w \in Workers : worker[w].pc \in Attempting => HoldsLease(w, worker[w].job)

(* What a step leaves of a lease it does not end. *)
LeaseKept(j) ==
    /\ row'[j].owner = row[j].owner
    /\ row'[j].status = row[j].status
    /\ row'[j].attempt = row[j].attempt
    /\ row'[j].expires \in {row[j].expires, now + LeaseDuration}

(* A lease that is held is touched by its holder alone. *)
LEMMA HeldLeaseKept ==
  ASSUME Undisturbed, TypeOK, RowsFresh, NothingCancelled, WritersHold, [Next]_vars,
         NEW w \in Workers, NEW k \in Jobs, HoldsLease(w, k)
  PROVE  \/ LeaseKept(k)
         \/ worker[w].pc \in Writing /\ worker[w].job = k /\ worker'[w] = Idle
<1>0. /\ row[k] \in Row /\ Fresh(row[k]) /\ row[k].status = "running"
      /\ row[k].owner = Identity[w] /\ row[k].expires > now /\ row[k].expires # None
  BY DEF HoldsLease, TypeOK, RowsFresh, NothingCancelled, Active, Unexpired
<1>1. ASSUME NEW j \in Jobs, Enqueue(j) PROVE LeaseKept(k)
  BY <1>0, <1>1 DEF Enqueue, LeaseKept, TypeOK
<1>2. Swept(k) = row[k]
  BY <1>0 DEF Swept, Expired, TypeOK, Row
<1>3. ASSUME NEW v \in Workers, NEW j \in Jobs, ClaimJob(v, j) PROVE LeaseKept(k)
  <2>1. Claimable(j) /\ row' = [i \in Jobs |-> IF i = j THEN Granted(j, Identity[v]) ELSE Swept(i)]
    BY <1>3 DEF ClaimJob, NextInLine
  <2>2. j # k
    BY <1>0, <2>1, ClaimableRow DEF Expired, TypeOK, Row
  <2> QED
    BY <1>2, <2>1, <2>2 DEF LeaseKept
<1>4. ASSUME NEW v \in Workers, ClaimNothing(v) PROVE LeaseKept(k)
  BY <1>2, <1>4 DEF ClaimNothing, LeaseKept
<1>5. ASSUME NEW v \in Workers, CheckpointRenews(v) \/ CheckpointCancels(v) PROVE LeaseKept(k)
  <2>1. worker[v].job \in Jobs
    BY <1>5 DEF CheckpointRenews, CheckpointCancels, AtCheckpoint, TypeOK, Stopped
  <2>2. row' = [row EXCEPT ![worker[v].job] =
                   [row[worker[v].job] EXCEPT !.expires = now + LeaseDuration]]
    BY <1>5 DEF CheckpointRenews, CheckpointCancels, Renewed
  <2> QED
    BY <2>1, <2>2 DEF LeaseKept, TypeOK, Row
<1>6. ASSUME NEW v \in Workers, FinishWrites(v) \/ FailWrites(v)
      PROVE  LeaseKept(k) \/ (worker[w].pc \in Writing /\ worker[w].job = k /\ worker'[w] = Idle)
  <2>1. worker[v].pc \in Writing /\ worker' = [worker EXCEPT ![v] = Idle]
    BY <1>6 DEF FinishWrites, FailWrites, Writing
  <2>2. HoldsLease(v, worker[v].job)
    BY <2>1 DEF WritersHold
  <2>3. CASE worker[v].job = k
    <3>1. v = w
      BY <2>2, <2>3 DEF HoldsLease, Undisturbed
    <3> QED
      BY <2>1, <2>3, <3>1 DEF TypeOK
  <2>4. CASE worker[v].job # k
    <3>1. row'[k] = row[k]
      <4>1. PICK r : row' = [row EXCEPT ![worker[v].job] = r]
        BY <1>6 DEF FinishWrites, FailWrites
      <4> QED
        BY <2>4, <4>1 DEF TypeOK
    <3>2. LeaseKept(k)
      BY <3>1 DEF LeaseKept
    <3> QED
      BY <3>2
  <2> QED
    BY <2>3, <2>4
<1>7. ASSUME NEW v \in Workers,
             \/ CheckpointLosesLease(v) \/ HandlerReturns(v) \/ HandlerFails(v)
             \/ FinishReads(v) \/ FinishEscapes(v) \/ FailEscapes(v)
             \/ Crash(v) \/ Restart(v) \/ Revive(v)
      PROVE  UNCHANGED row
  BY <1>7 DEF CheckpointLosesLease, HandlerReturns, HandlerFails, FinishReads,
              FinishEscapes, FailEscapes, Crash, Restart, Revive
<1>8. Tick \/ UNCHANGED vars => UNCHANGED row
  BY DEF Tick, vars
<1>9. UNCHANGED row => LeaseKept(k)
  BY DEF LeaseKept
<1> QED
  BY <1>1, <1>3, <1>4, <1>5, <1>6, <1>7, <1>8, <1>9 DEF Next, RunOnce, Undisturbed

(* A lease that is kept is still held, unless the clock ran it out. *)
LEMMA KeptLeaseHolds ==
  ASSUME TypeOK, TypeOK', NEW w \in Workers, NEW k \in Jobs, HoldsLease(w, k), LeaseKept(k),
         now' = now \/ (now' = now + 1 /\ row' = row /\ row[k].expires > now + 1)
  PROVE  HoldsLease(w, k)' /\ row'[k].attempt = row[k].attempt
<1>1. now \in Nat /\ now' \in Nat /\ now + LeaseDuration > now /\ now + LeaseDuration # None
  BY TimeAssumption, NoneAssumption DEF TypeOK
<1>2. row[k].expires # None /\ row[k].expires > now
  BY DEF HoldsLease, Unexpired
<1>3. row'[k].expires # None /\ row'[k].expires > now'
  BY <1>1, <1>2 DEF LeaseKept
<1> QED
  BY <1>3 DEF HoldsLease, Unexpired, LeaseKept

(* A worker that is about to write was so before, or has just read the row *)
(* of an attempt whose lease it holds.                                     *)
LEMMA WritersChange ==
  ASSUME Undisturbed, TypeOK, NothingCancelled, [Next]_vars, NEW w \in Workers, worker'[w].pc \in Writing
  PROVE  \/ worker'[w] = worker[w]
         \/ /\ worker[w].job \in Jobs /\ HoldsLease(w, worker[w].job)
            /\ worker'[w].job = worker[w].job
            /\ worker'[w].seen = row[worker[w].job].attempt /\ worker'[w].at = now
            /\ UNCHANGED <<now, row>>
<1>0. worker[w] \in WorkerState /\ (worker[w].pc \in {"idle"} \cup Stopped \/ worker[w].job \in Jobs)
  BY DEF TypeOK
<1>1. ASSUME NEW j \in Jobs, Enqueue(j) PROVE worker'[w] = worker[w]
  BY <1>1 DEF Enqueue
<1>2. ASSUME NEW v \in Workers, NEW r, worker' = [worker EXCEPT ![v] = r], r.pc \notin Writing
      PROVE  worker'[w] = worker[w]
  BY <1>2 DEF TypeOK
<1>3. ASSUME NEW v \in Workers, NEW j \in Jobs, ClaimJob(v, j) PROVE worker'[w] = worker[w]
  <2>1. PICK pc \in {"cancel", "begin"} : worker' = [worker EXCEPT ![v] = [Idle EXCEPT !.pc = pc, !.job = j]]
    BY <1>3 DEF ClaimJob
  <2>2. [Idle EXCEPT !.pc = pc, !.job = j].pc \notin Writing
    BY DEF Idle, Writing
  <2> QED
    BY <1>2, <2>1, <2>2
<1>4. ASSUME NEW v \in Workers, ClaimNothing(v) PROVE worker'[w] = worker[w]
  BY <1>4 DEF ClaimNothing
<1>5. ASSUME NEW v \in Workers, CheckpointRenews(v) \/ CheckpointCancels(v) \/ CheckpointLosesLease(v)
      PROVE  worker'[w] = worker[w]
  <2>1. PICK pc \in {"handler", "succeed", "cancel", "fail"} : worker' = Counted(v, pc)
    BY <1>5 DEF CheckpointRenews, CheckpointCancels, CheckpointLosesLease, AtCheckpoint
  <2>2. [worker[v] EXCEPT !.pc = pc, !.beats = Beats(v)].pc \notin Writing
    BY DEF Writing, TypeOK, WorkerState
  <2> QED
    BY <1>2, <2>1, <2>2 DEF Counted
<1>6. ASSUME NEW v \in Workers, HandlerReturns(v) \/ HandlerFails(v) PROVE worker'[w] = worker[w]
  <2>1. PICK pc \in {"closing", "fail"} : worker' = [worker EXCEPT ![v] = [worker[v] EXCEPT !.pc = pc]]
    BY <1>6 DEF HandlerReturns, HandlerFails
  <2>2. [worker[v] EXCEPT !.pc = pc].pc \notin Writing
    BY DEF Writing, TypeOK, WorkerState
  <2> QED
    BY <1>2, <2>1, <2>2
<1>7. ASSUME NEW v \in Workers, FinishReads(v), v = w
      PROVE  /\ worker[w].job \in Jobs /\ HoldsLease(w, worker[w].job)
             /\ worker'[w].job = worker[w].job
             /\ worker'[w].seen = row[worker[w].job].attempt /\ worker'[w].at = now
             /\ UNCHANGED <<now, row>>
  <2>1. PICK finish \in Finishing :
            /\ worker[w].pc = finish /\ MayFinish(w, finish)
            /\ worker' = [worker EXCEPT ![w] =
                   [worker[w] EXCEPT !.pc = WritePC[finish], !.at = now,
                                     !.seen = row[worker[w].job].attempt]]
            /\ UNCHANGED <<now, row>>
    BY <1>7 DEF FinishReads
  <2>2. worker[w].job \in Jobs
    BY <1>0, <2>1 DEF Finishing, Stopped
  <2>3. HoldsLease(w, worker[w].job)
    BY <2>1 DEF MayFinish, HoldsLease, ExpectedStatus, Active
  <2>4. /\ worker'[w].job = worker[w].job
        /\ worker'[w].seen = row[worker[w].job].attempt /\ worker'[w].at = now
    BY <2>1 DEF TypeOK, WorkerState
  <2> QED
    BY <2>1, <2>2, <2>3, <2>4
<1>8. ASSUME NEW v \in Workers, FinishReads(v), v # w PROVE worker'[w] = worker[w]
  BY <1>8 DEF FinishReads, TypeOK
<1>9. ASSUME NEW v \in Workers,
             \/ FinishEscapes(v) \/ FinishWrites(v) \/ FailWrites(v) \/ FailEscapes(v)
             \/ Crash(v) \/ Restart(v) \/ Revive(v)
      PROVE  worker'[w] = worker[w]
  <2>1. PICK pc \in {"idle"} \cup Stopped : worker' = [worker EXCEPT ![v] = [Idle EXCEPT !.pc = pc]]
    BY <1>9, IdleIsRested DEF FinishEscapes, FinishWrites, FailWrites, FailEscapes, Crash, Restart,
                              Revive, Stopped
  <2>2. [Idle EXCEPT !.pc = pc].pc \notin Writing
    BY DEF Idle, Writing, Stopped
  <2> QED
    BY <1>2, <2>1, <2>2
<1>10. Tick \/ UNCHANGED vars => worker'[w] = worker[w]
  BY DEF Tick, vars
<1> QED
  BY <1>1, <1>3, <1>4, <1>5, <1>6, <1>7, <1>8, <1>9, <1>10 DEF Next, RunOnce, Undisturbed

LEMMA NothingCancelledStep ==
  ASSUME Undisturbed, TypeOK, RowsFresh, NothingCancelled, [Next]_vars
  PROVE  NothingCancelled'
<1> DEFINE Calm(r) == r.status # "cancel_requested"
<1>0. \A k \in Jobs : Calm(row[k]) /\ row[k] \in Row
  BY DEF NothingCancelled, TypeOK
<1>1. \A k \in Jobs : Calm(Swept(k))
  BY <1>0 DEF Swept, Completed, Unleased, Row
<1>2. \A k \in Jobs : Calm(row'[k])
  <2>1. ASSUME NEW j \in Jobs, Enqueue(j) PROVE \A k \in Jobs : Calm(row'[k])
    BY <1>0, <2>1 DEF Enqueue, NoRow, TypeOK
  <2>2. ASSUME NEW v \in Workers, NEW j \in Jobs, ClaimJob(v, j) PROVE \A k \in Jobs : Calm(row'[k])
    <3>1. Claimable(j) /\ row' = [i \in Jobs |-> IF i = j THEN Granted(j, Identity[v]) ELSE Swept(i)]
      BY <2>2 DEF ClaimJob, NextInLine
    <3>2. Calm(Granted(j, Identity[v]))
      BY <3>1, GrantedIsFresh, IdentityAssumption
    <3> QED
      BY <1>1, <3>1, <3>2
  <2>3. ASSUME NEW v \in Workers, ClaimNothing(v) PROVE \A k \in Jobs : Calm(row'[k])
    BY <1>1, <2>3 DEF ClaimNothing
  <2>4. ASSUME NEW j \in Jobs, NEW r, Calm(r), row' = [row EXCEPT ![j] = r]
        PROVE  \A k \in Jobs : Calm(row'[k])
    BY <1>0, <2>4 DEF TypeOK
  <2>5. ASSUME NEW v \in Workers, CheckpointRenews(v) \/ CheckpointCancels(v)
        PROVE \A k \in Jobs : Calm(row'[k])
    <3>1. worker[v].job \in Jobs
      BY <2>5 DEF CheckpointRenews, CheckpointCancels, AtCheckpoint, TypeOK, Stopped
    <3>2. row' = [row EXCEPT ![worker[v].job] =
                     [row[worker[v].job] EXCEPT !.expires = now + LeaseDuration]]
      BY <2>5 DEF CheckpointRenews, CheckpointCancels, Renewed
    <3>3. Calm([row[worker[v].job] EXCEPT !.expires = now + LeaseDuration])
      BY <1>0, <3>1 DEF Row
    <3> QED
      BY <2>4, <3>1, <3>2, <3>3
  <2>6. ASSUME NEW v \in Workers, FinishWrites(v) PROVE \A k \in Jobs : Calm(row'[k])
    <3>1. worker[v].job \in Jobs
      BY <2>6 DEF FinishWrites, TypeOK, Stopped
    <3>2. PICK s \in Terminal : row' = [row EXCEPT ![worker[v].job] = Completed(row[worker[v].job], s)]
      BY <2>6 DEF FinishWrites, Terminal
    <3>3. Calm(Completed(row[worker[v].job], s))
      BY <1>0, <3>1 DEF Completed, Unleased, Terminal, Row
    <3> QED
      BY <2>4, <3>1, <3>2, <3>3
  <2>7. ASSUME NEW v \in Workers, FailWrites(v) PROVE \A k \in Jobs : Calm(row'[k])
    <3>1. worker[v].job \in Jobs
      BY <2>7 DEF FailWrites, TypeOK, Stopped
    <3>2. Calm(Failed(worker[v].job, worker[v].seen, worker[v].at))
      BY <1>0, <3>1 DEF Failed, Unleased, Row
    <3> QED
      BY <2>4, <2>7, <3>1, <3>2 DEF FailWrites
  <2>8. UNCHANGED row => \A k \in Jobs : Calm(row'[k])
    BY <1>0
  <2>9. ASSUME NEW v \in Workers,
               \/ CheckpointLosesLease(v) \/ HandlerReturns(v) \/ HandlerFails(v)
               \/ FinishReads(v) \/ FinishEscapes(v) \/ FailEscapes(v)
               \/ Crash(v) \/ Restart(v) \/ Revive(v)
        PROVE  UNCHANGED row
    BY <2>9 DEF CheckpointLosesLease, HandlerReturns, HandlerFails, FinishReads,
                FinishEscapes, FailEscapes, Crash, Restart, Revive
  <2>10. Tick \/ UNCHANGED vars => UNCHANGED row
    BY DEF Tick, vars
  <2> QED
    BY <2>1, <2>2, <2>3, <2>5, <2>6, <2>7, <2>8, <2>9, <2>10 DEF Next, RunOnce, Undisturbed
<1>3. ASSUME NEW w \in Workers PROVE worker'[w].pc \notin {"cancel", "cancel_write"}
  <2> DEFINE NotCancelling(pc) == pc \notin {"cancel", "cancel_write"}
  <2>0. NotCancelling(worker[w].pc) /\ worker[w] \in WorkerState
    BY DEF NothingCancelled, TypeOK
  <2>1. ASSUME NEW v \in Workers, NEW r, worker' = [worker EXCEPT ![v] = r], NotCancelling(r.pc)
        PROVE  NotCancelling(worker'[w].pc)
    BY <2>0, <2>1 DEF TypeOK
  <2>2. ASSUME NEW v \in Workers, NEW j \in Jobs, ClaimJob(v, j) PROVE NotCancelling(worker'[w].pc)
    <3>1. Claimable(j) /\ row' = [i \in Jobs |-> IF i = j THEN Granted(j, Identity[v]) ELSE Swept(i)]
      BY <2>2 DEF ClaimJob, NextInLine
    <3>2. row'[j].status = "running"
      BY <3>1, GrantedIsFresh, IdentityAssumption
    <3>3. worker' = [worker EXCEPT ![v] = [Idle EXCEPT !.pc = "begin", !.job = j]]
      BY <2>2, <3>2 DEF ClaimJob
    <3>4. NotCancelling([Idle EXCEPT !.pc = "begin", !.job = j].pc)
      BY DEF Idle
    <3> QED
      BY <2>1, <3>3, <3>4
  <2>3. ASSUME NEW v \in Workers, CheckpointRenews(v) \/ CheckpointLosesLease(v)
        PROVE  NotCancelling(worker'[w].pc)
    <3>1. PICK pc \in {"handler", "succeed", "fail"} : worker' = Counted(v, pc)
      BY <2>3 DEF CheckpointRenews, CheckpointLosesLease, AtCheckpoint
    <3>2. NotCancelling([worker[v] EXCEPT !.pc = pc, !.beats = Beats(v)].pc)
      BY DEF TypeOK, WorkerState
    <3> QED
      BY <2>1, <3>1, <3>2 DEF Counted
  <2>4. ASSUME NEW v \in Workers, CheckpointCancels(v) PROVE FALSE
    BY <2>4 DEF CheckpointCancels, AtCheckpoint, NothingCancelled, TypeOK, Stopped
  <2>5. ASSUME NEW v \in Workers, HandlerReturns(v) \/ HandlerFails(v) PROVE NotCancelling(worker'[w].pc)
    <3>1. PICK pc \in {"closing", "fail"} : worker' = [worker EXCEPT ![v] = [worker[v] EXCEPT !.pc = pc]]
      BY <2>5 DEF HandlerReturns, HandlerFails
    <3>2. NotCancelling([worker[v] EXCEPT !.pc = pc].pc)
      BY DEF TypeOK, WorkerState
    <3> QED
      BY <2>1, <3>1, <3>2
  <2>6. ASSUME NEW v \in Workers, FinishReads(v) PROVE NotCancelling(worker'[w].pc)
    <3>1. PICK finish \in Finishing :
              /\ worker[v].pc = finish
              /\ worker' = [worker EXCEPT ![v] =
                     [worker[v] EXCEPT !.pc = WritePC[finish], !.at = now,
                                       !.seen = row[worker[v].job].attempt]]
      BY <2>6 DEF FinishReads
    <3>2. finish \in {"succeed", "fail"}
      BY <3>1 DEF Finishing, NothingCancelled
    <3>3. NotCancelling([worker[v] EXCEPT !.pc = WritePC[finish], !.at = now,
                                          !.seen = row[worker[v].job].attempt].pc)
      BY <3>2 DEF TypeOK, WorkerState, WritePC
    <3> QED
      BY <2>1, <3>1, <3>3
  <2>7. ASSUME NEW v \in Workers,
               \/ FinishEscapes(v) \/ FinishWrites(v) \/ FailWrites(v) \/ FailEscapes(v)
               \/ Crash(v) \/ Restart(v) \/ Revive(v)
        PROVE  NotCancelling(worker'[w].pc)
    <3>1. PICK pc \in {"idle"} \cup Stopped : worker' = [worker EXCEPT ![v] = [Idle EXCEPT !.pc = pc]]
      BY <2>7, IdleIsRested DEF FinishEscapes, FinishWrites, FailWrites, FailEscapes, Crash, Restart,
                                Revive, Stopped
    <3>2. NotCancelling([Idle EXCEPT !.pc = pc].pc)
      BY DEF Idle, Stopped
    <3> QED
      BY <2>1, <3>1, <3>2
  <2>8. ASSUME NEW j \in Jobs, Enqueue(j) PROVE UNCHANGED worker
    BY <2>8 DEF Enqueue
  <2>9. ASSUME NEW v \in Workers, ClaimNothing(v) PROVE UNCHANGED worker
    BY <2>9 DEF ClaimNothing
  <2>10. Tick \/ UNCHANGED vars => UNCHANGED worker
    BY DEF Tick, vars
  <2>11. UNCHANGED worker => NotCancelling(worker'[w].pc)
    BY <2>0
  <2> HIDE DEF NotCancelling
  <2>12. NotCancelling(worker'[w].pc)
    BY <2>2, <2>3, <2>4, <2>5, <2>6, <2>7, <2>8, <2>9, <2>10, <2>11
       DEF Next, RunOnce, Undisturbed
  <2> QED
    BY <2>12 DEF NotCancelling
<1> QED
  BY <1>2, <1>3 DEF NothingCancelled

(* Time passes over a lease only while its worker can still renew it. *)
LEMMA ClockOrLease ==
  ASSUME Undisturbed, TypeOK, WritersHold, [Next]_vars,
         NEW w \in Workers, HoldsLease(w, worker[w].job),
         worker[w].pc \in Writing \/ (TimelyWorkers /\ worker[w].pc \in Attempting)
  PROVE  \/ now' = now
         \/ now' = now + 1 /\ row' = row /\ row[worker[w].job].expires > now + 1
<1>1. CASE Tick
  <2>1. CASE TimelyWorkers
    <3>1. worker[w].pc \notin Stopped \cup {"idle"}
      BY DEF Stopped, Writing, Attempting, Finishing
    <3> QED
      BY <1>1, <2>1, <3>1 DEF Tick, NoLeaseRunsOut
  <2>2. CASE ~TimelyWorkers
    <3>1. MaxStall = 0 /\ worker[w].at <= now /\ worker[w].at \in Nat /\ now \in Nat
      BY <2>2 DEF Undisturbed, WritersHold, TypeOK, WorkerState
    <3>2. now < worker[w].at + 0
      BY <1>1, <2>2, <3>1 DEF Tick, WithinStall
    <3> QED
      BY <3>1, <3>2
  <2> QED
    BY <2>1, <2>2
<1>2. CASE ~Tick
  <2>1. ASSUME NEW j \in Jobs, Enqueue(j) PROVE now' = now
    BY <2>1 DEF Enqueue
  <2>2. ASSUME NEW v \in Workers, RunOnce(v) \/ Crash(v) \/ Restart(v) \/ Revive(v) PROVE now' = now
    BY <2>2 DEF RunOnce, ClaimJob, ClaimNothing, CheckpointRenews, CheckpointCancels,
       CheckpointLosesLease, HandlerReturns, HandlerFails, FinishReads, FinishEscapes,
       FinishWrites, FailWrites, FailEscapes, Crash, Restart, Revive
  <2>3. UNCHANGED vars => now' = now
    BY DEF vars
  <2> QED
    BY <1>2, <2>1, <2>2, <2>3 DEF Next, Undisturbed
<1> QED
  BY <1>1, <1>2

LEMMA WritersHoldStep ==
  ASSUME Undisturbed, TypeOK, RowsFresh, NothingCancelled, WritersHold, [Next]_vars
  PROVE  WritersHold'
<1>0. TypeOK'
  BY TypeStep
<1>1. SUFFICES ASSUME NEW w \in Workers, worker'[w].pc \in Writing
               PROVE  /\ HoldsLease(w, worker[w].job)'
                      /\ row'[worker'[w].job].attempt = worker'[w].seen
                      /\ worker'[w].at <= now'
  BY DEF WritersHold
<1>2. CASE worker'[w] = worker[w]
  <2>1. /\ HoldsLease(w, worker[w].job) /\ worker[w].job \in Jobs /\ worker[w].pc \in Writing
        /\ row[worker[w].job].attempt = worker[w].seen
        /\ worker[w].at <= now /\ worker[w].at \in Nat
    BY <1>1, <1>2 DEF WritersHold, TypeOK, Writing, Stopped, WorkerState
  <2>2. worker'[w] # Idle
    BY <1>1 DEF Idle, Writing
  <2>3. LeaseKept(worker[w].job)
    BY <2>1, <2>2, HeldLeaseKept
  <2>4. \/ now' = now
        \/ now' = now + 1 /\ row' = row /\ row[worker[w].job].expires > now + 1
    BY <2>1, ClockOrLease
  <2>5. PICK k \in Jobs : k = worker[w].job
    BY <2>1
  <2>6. HoldsLease(w, k)' /\ row'[k].attempt = row[k].attempt
    BY <1>0, <2>1, <2>3, <2>4, <2>5, KeptLeaseHolds
  <2>7. worker'[w].at <= now'
    BY <1>2, <2>1, <2>4 DEF TypeOK
  <2> QED
    BY <1>2, <2>1, <2>5, <2>6, <2>7 DEF HoldsLease
<1>3. CASE /\ worker[w].job \in Jobs /\ HoldsLease(w, worker[w].job)
           /\ worker'[w].job = worker[w].job
           /\ worker'[w].seen = row[worker[w].job].attempt /\ worker'[w].at = now
           /\ UNCHANGED <<now, row>>
  BY <1>3 DEF HoldsLease, Unexpired, TypeOK
<1> QED
  BY <1>1, <1>2, <1>3, WritersChange

LEMMA AlwaysUndisturbed ==
  ASSUME Undisturbed
  PROVE  Spec => [](TypeOK /\ RowsFresh /\ NothingCancelled /\ WritersHold)
<1>1. Init => TypeOK /\ RowsFresh /\ NothingCancelled /\ WritersHold
  BY DEF Init, TypeOK, NoRow, Row, Idle, NoRequest, WorkerState, Request, WorkerPCs,
         RowsFresh, Fresh, Terminal, NothingCancelled, WritersHold, Writing
<1>2. TypeOK /\ RowsFresh /\ NothingCancelled /\ WritersHold /\ [Next]_vars
          => (TypeOK /\ RowsFresh /\ NothingCancelled /\ WritersHold)'
  BY TypeStep, RowsStep, NothingCancelledStep, WritersHoldStep
<1> QED
  BY <1>1, <1>2, PTL DEF Spec

(* The outcome of an attempt is written by the worker that holds its lease. *)
THEOREM OutcomesAreTheHolders == ASSUME Undisturbed PROVE Spec => OutcomeByHolder
<1>1. WritersHold => (\A w \in Workers :
          worker[w].pc \in Writing /\ worker'[w] = Idle =>
              /\ row[worker[w].job].owner = Identity[w]
              /\ row[worker[w].job].attempt = worker[w].seen)
  BY DEF WritersHold, HoldsLease
<1> QED
  BY <1>1, AlwaysUndisturbed, PTL DEF OutcomeByHolder

(* Under workers that renew in time, an attempt keeps its lease to the end. *)
LEMMA AttemptersHoldStep ==
  ASSUME Undisturbed, TimelyWorkers, TypeOK, RowsFresh, NothingCancelled, WritersHold,
         AttemptersHold, [Next]_vars
  PROVE  AttemptersHold'
<1>0. TypeOK'
  BY TypeStep
<1>1. ASSUME NEW w \in Workers, worker[w].pc \in Attempting, worker'[w].pc \in Attempting,
             worker'[w].job = worker[w].job
      PROVE  HoldsLease(w, worker[w].job)'
  <2>1. PICK k \in Jobs : k = worker[w].job /\ HoldsLease(w, k)
    BY <1>1 DEF AttemptersHold, TypeOK, Attempting, Finishing, Writing, Stopped
  <2>2. worker'[w] # Idle
    BY <1>1 DEF Idle, Attempting, Finishing, Writing
  <2>3. LeaseKept(k)
    BY <2>1, <2>2, HeldLeaseKept
  <2>4. \/ now' = now
        \/ now' = now + 1 /\ row' = row /\ row[k].expires > now + 1
    BY <1>1, <2>1, ClockOrLease
  <2>5. HoldsLease(w, k)'
    BY <1>0, <2>1, <2>3, <2>4, KeptLeaseHolds
  <2> QED
    BY <1>1, <2>1, <2>5 DEF HoldsLease
<1>2. ASSUME NEW w \in Workers, NEW j \in Jobs, ClaimJob(w, j) PROVE HoldsLease(w, worker[w].job)'
  <2>1. /\ Claimable(j) /\ now' = now
        /\ row' = [i \in Jobs |-> IF i = j THEN Granted(j, Identity[w]) ELSE Swept(i)]
    BY <1>2 DEF ClaimJob, NextInLine
  <2>2. worker'[w].job = j
    BY <1>2 DEF ClaimJob, TypeOK, Idle
  <2>3. /\ row'[j].owner = Identity[w] /\ row'[j].status = "running"
        /\ row'[j].expires = now + LeaseDuration
    BY <2>1, GrantedIsFresh, IdentityAssumption
  <2>4. now + LeaseDuration # None /\ now + LeaseDuration > now
    BY TimeAssumption, NoneAssumption DEF TypeOK
  <2> QED
    BY <2>1, <2>2, <2>3, <2>4 DEF HoldsLease, Unexpired, Active
<1>3. ASSUME NEW w \in Workers, worker'[w].pc \in Attempting
      PROVE  \/ worker[w].pc \in Attempting /\ worker'[w].job = worker[w].job
             \/ \E j \in Jobs : ClaimJob(w, j)
  <2>0. worker[w] \in WorkerState
    BY DEF TypeOK
  <2>1. ASSUME NEW v \in Workers, NEW j \in Jobs, ClaimJob(v, j), v # w PROVE worker'[w] = worker[w]
    BY <2>1 DEF ClaimJob, TypeOK
  <2>2. ASSUME NEW v \in Workers, CheckpointRenews(v) \/ CheckpointCancels(v) \/ CheckpointLosesLease(v)
        PROVE  worker[w].pc \in Attempting /\ worker'[w].job = worker[w].job
    <3>1. PICK pc : worker' = Counted(v, pc)
      BY <2>2 DEF CheckpointRenews, CheckpointCancels, CheckpointLosesLease
    <3>2. worker'[w].job = worker[w].job /\ (v # w => worker'[w] = worker[w])
      BY <2>0, <3>1 DEF Counted, TypeOK, WorkerState
    <3>3. worker[v].pc \in Attempting
      BY <2>2 DEF CheckpointRenews, CheckpointCancels, CheckpointLosesLease, AtCheckpoint, Attempting
    <3> QED
      BY <1>3, <3>2, <3>3
  <2>3. ASSUME NEW v \in Workers, HandlerReturns(v) \/ HandlerFails(v)
        PROVE  worker[w].pc \in Attempting /\ worker'[w].job = worker[w].job
    <3>1. PICK pc : worker' = [worker EXCEPT ![v] = [worker[v] EXCEPT !.pc = pc]]
      BY <2>3 DEF HandlerReturns, HandlerFails
    <3>2. worker'[w].job = worker[w].job /\ (v # w => worker'[w] = worker[w])
      BY <2>0, <3>1 DEF TypeOK, WorkerState
    <3>3. worker[v].pc \in Attempting
      BY <2>3 DEF HandlerReturns, HandlerFails, Attempting
    <3> QED
      BY <1>3, <3>2, <3>3
  <2>4. ASSUME NEW v \in Workers, FinishReads(v)
        PROVE  worker[w].pc \in Attempting /\ worker'[w].job = worker[w].job
    <3>1. PICK finish \in Finishing :
              /\ worker[v].pc = finish
              /\ worker' = [worker EXCEPT ![v] =
                     [worker[v] EXCEPT !.pc = WritePC[finish], !.at = now,
                                       !.seen = row[worker[v].job].attempt]]
      BY <2>4 DEF FinishReads
    <3>2. worker'[w].job = worker[w].job /\ (v # w => worker'[w] = worker[w])
      BY <2>0, <3>1 DEF TypeOK, WorkerState
    <3> QED
      BY <1>3, <3>1, <3>2 DEF Attempting
  <2>5. ASSUME NEW v \in Workers,
               \/ FinishEscapes(v) \/ FinishWrites(v) \/ FailWrites(v) \/ FailEscapes(v)
               \/ Crash(v) \/ Restart(v) \/ Revive(v)
        PROVE  worker'[w] = worker[w]
    <3>1. PICK pc \in {"idle"} \cup Stopped : worker' = [worker EXCEPT ![v] = [Idle EXCEPT !.pc = pc]]
      BY <2>5, IdleIsRested DEF FinishEscapes, FinishWrites, FailWrites, FailEscapes, Crash, Restart,
                                Revive, Stopped
    <3>2. [Idle EXCEPT !.pc = pc].pc \notin Attempting
      BY DEF Idle, Stopped, Attempting, Finishing, Writing
    <3> QED
      BY <1>3, <3>1, <3>2 DEF TypeOK
  <2>6. ASSUME NEW j \in Jobs, Enqueue(j) PROVE worker'[w] = worker[w]
    BY <2>6 DEF Enqueue
  <2>7. ASSUME NEW v \in Workers, ClaimNothing(v) PROVE worker'[w] = worker[w]
    BY <2>7 DEF ClaimNothing
  <2>8. Tick \/ UNCHANGED vars => worker'[w] = worker[w]
    BY DEF Tick, vars
  <2> QED
    BY <1>3, <2>1, <2>2, <2>3, <2>4, <2>5, <2>6, <2>7, <2>8 DEF Next, RunOnce, Undisturbed
<1>4. ASSUME NEW w \in Workers, worker'[w].pc \in Attempting PROVE HoldsLease(w, worker[w].job)'
  <2>1. CASE worker[w].pc \in Attempting /\ worker'[w].job = worker[w].job
    BY <1>1, <1>4, <2>1
  <2> QED
    BY <1>2, <1>3, <1>4, <2>1
<1> QED
  BY <1>4 DEF AttemptersHold, HoldsLease

(* No worker that renews its lease in time ends for good. *)
LEMMA NobodyDiesStep ==
  ASSUME Undisturbed, TypeOK, NothingCancelled, AttemptersHold, WorkersSurvive, [Next]_vars
  PROVE  WorkersSurvive'
<1>1. ASSUME NEW w \in Workers, FinishEscapes(w) PROVE FALSE
  <2>1. PICK finish \in Finishing : worker[w].pc = finish /\ ~MayFinish(w, finish)
    BY <1>1 DEF FinishEscapes
  <2>2. finish # "cancel" /\ worker[w].job \in Jobs /\ HoldsLease(w, worker[w].job)
    BY <2>1 DEF NothingCancelled, AttemptersHold, Attempting, Finishing, TypeOK, Stopped
  <2>3. row[worker[w].job].status = "running"
    BY <2>2 DEF HoldsLease, Active, NothingCancelled
  <2> QED
    BY <2>1, <2>2, <2>3 DEF MayFinish, HoldsLease, ExpectedStatus
<1>2. ASSUME NEW w \in Workers, FailEscapes(w) PROVE FALSE
  BY <1>2 DEF FailEscapes, AttemptersHold, Attempting, Writing, HoldsLease
<1>3. ASSUME NEW v \in Workers, NEW r, worker' = [worker EXCEPT ![v] = r], r.pc # "dead"
      PROVE  WorkersSurvive'
  BY <1>3 DEF WorkersSurvive, TypeOK
<1>4. ASSUME NEW v \in Workers, NEW j \in Jobs, ClaimJob(v, j) PROVE WorkersSurvive'
  <2>1. PICK pc \in {"cancel", "begin"} : worker' = [worker EXCEPT ![v] = [Idle EXCEPT !.pc = pc, !.job = j]]
    BY <1>4 DEF ClaimJob
  <2>2. [Idle EXCEPT !.pc = pc, !.job = j].pc # "dead"
    BY DEF Idle
  <2> QED
    BY <1>3, <2>1, <2>2
<1>5. ASSUME NEW v \in Workers, CheckpointRenews(v) \/ CheckpointCancels(v) \/ CheckpointLosesLease(v)
      PROVE  WorkersSurvive'
  <2>1. PICK pc \in {"handler", "succeed", "cancel", "fail"} : worker' = Counted(v, pc)
    BY <1>5 DEF CheckpointRenews, CheckpointCancels, CheckpointLosesLease, AtCheckpoint
  <2>2. [worker[v] EXCEPT !.pc = pc, !.beats = Beats(v)].pc # "dead"
    BY DEF TypeOK, WorkerState
  <2> QED
    BY <1>3, <2>1, <2>2 DEF Counted
<1>6. ASSUME NEW v \in Workers, HandlerReturns(v) \/ HandlerFails(v) PROVE WorkersSurvive'
  <2>1. PICK pc \in {"closing", "fail"} : worker' = [worker EXCEPT ![v] = [worker[v] EXCEPT !.pc = pc]]
    BY <1>6 DEF HandlerReturns, HandlerFails
  <2>2. [worker[v] EXCEPT !.pc = pc].pc # "dead"
    BY DEF TypeOK, WorkerState
  <2> QED
    BY <1>3, <2>1, <2>2
<1>7. ASSUME NEW v \in Workers, FinishReads(v) PROVE WorkersSurvive'
  <2>1. PICK finish \in Finishing :
            worker' = [worker EXCEPT ![v] =
                   [worker[v] EXCEPT !.pc = WritePC[finish], !.at = now,
                                     !.seen = row[worker[v].job].attempt]]
    BY <1>7 DEF FinishReads
  <2>2. [worker[v] EXCEPT !.pc = WritePC[finish], !.at = now,
                          !.seen = row[worker[v].job].attempt].pc # "dead"
    BY DEF TypeOK, WorkerState, WritePC, Finishing
  <2> QED
    BY <1>3, <2>1, <2>2
<1>8. ASSUME NEW v \in Workers, FinishWrites(v) \/ FailWrites(v) \/ Restart(v) \/ Revive(v)
      PROVE  WorkersSurvive'
  <2>1. worker' = [worker EXCEPT ![v] = Idle]
    BY <1>8 DEF FinishWrites, FailWrites, Restart, Revive
  <2>2. Idle.pc # "dead"
    BY DEF Idle
  <2> QED
    BY <1>3, <2>1, <2>2
<1>9. ASSUME NEW v \in Workers, Crash(v) PROVE WorkersSurvive'
  <2>1. [Idle EXCEPT !.pc = "crashed"].pc # "dead"
    BY DEF Idle
  <2> QED
    BY <1>3, <1>9, <2>1 DEF Crash
<1>10. ASSUME NEW j \in Jobs, Enqueue(j) PROVE UNCHANGED worker
  BY <1>10 DEF Enqueue
<1>11. ASSUME NEW v \in Workers, ClaimNothing(v) PROVE UNCHANGED worker
  BY <1>11 DEF ClaimNothing
<1>12. Tick \/ UNCHANGED vars => UNCHANGED worker
  BY DEF Tick, vars
<1>13. UNCHANGED worker => WorkersSurvive'
  BY DEF WorkersSurvive
<1> QED
  BY <1>1, <1>2, <1>4, <1>5, <1>6, <1>7, <1>8, <1>9, <1>10, <1>11, <1>12, <1>13
     DEF Next, RunOnce, Undisturbed

(* As long as live workers renew their leases in time, nobody interferes   *)
(* and no failure of a handler ends a worker thread.                       *)
THEOREM NobodyDies == ASSUME Undisturbed, TimelyWorkers PROVE Spec => []WorkersSurvive
<1> DEFINE IInv == /\ TypeOK /\ RowsFresh /\ NothingCancelled /\ WritersHold
                   /\ AttemptersHold /\ WorkersSurvive
<1>1. Init => IInv
  BY DEF Init, TypeOK, NoRow, Row, Idle, NoRequest, WorkerState, Request, WorkerPCs,
         RowsFresh, Fresh, Terminal, NothingCancelled, WritersHold, Writing,
         AttemptersHold, Attempting, Finishing, WorkersSurvive
<1>2. IInv /\ [Next]_vars => IInv'
  BY TypeStep, RowsStep, NothingCancelledStep, WritersHoldStep, AttemptersHoldStep, NobodyDiesStep
<1> QED
  BY <1>1, <1>2, PTL DEF Spec

-------------------------------------------------------------------------------
(* The queue implements the lifecycle diagram. *)

(* A sweep fails a job at its attempt limit, or leaves it where it is. *)
LEMMA SweptFailsOrStays ==
  ASSUME TypeOK, AttemptsWithinBudget, NothingCancelled, NEW k \in Jobs,
         row'[k] = Swept(k)
  PROVE  /\ Swept(k).attempt = row[k].attempt
         /\ \/ Swept(k).status = row[k].status
            \/ /\ row[k].status = "running" /\ row[k].attempt = Budget[k]
               /\ Swept(k).status = "failed"
<1>1. row[k] \in Row /\ row[k].attempt <= Budget[k] /\ Budget[k] \in Nat /\ row[k].attempt \in Nat
  BY BudgetAssumption DEF TypeOK, AttemptsWithinBudget, Row
<1>2. row[k].status # "cancel_requested"
  BY DEF NothingCancelled
<1>3. CASE Swept(k) = row[k]
  BY <1>3
<1>4. CASE row[k].status = "running" /\ row[k].attempt >= Budget[k]
              /\ Swept(k) = Completed(row[k], "failed")
  BY <1>1, <1>4 DEF Completed, Unleased, Row
<1> QED
  BY <1>2, <1>3, <1>4 DEF Swept

LEMMA LifecycleStep ==
  ASSUME Undisturbed, TypeOK, RowsFresh, AttemptsWithinBudget, NothingCancelled, WritersHold,
         [Next]_vars
  PROVE  [Lifecycle!Next]_(Lifecycle!vars)
<1> DEFINE Goes(k) == \/ Lifecycle!Enqueue(k) \/ Lifecycle!Start(k) \/ Lifecycle!Succeed(k)
                      \/ Lifecycle!Requeue(k) \/ Lifecycle!Fail(k) \/ Lifecycle!Stays(k)
<1>0. row' \in [Jobs -> Row]
  BY TypeStep DEF TypeOK
<1>1. ASSUME NEW k \in Jobs PROVE Goes(k)
  <2>0. row[k] \in Row /\ row[k].attempt \in Nat /\ Budget[k] \in Nat /\ row[k].attempt <= Budget[k]
    BY BudgetAssumption DEF TypeOK, Row, AttemptsWithinBudget
  <2>1. row'[k] = row[k] => Lifecycle!Stays(k)
    BY <1>0 DEF Lifecycle!Stays, Lifecycle!Becomes
  <2>2. row'[k] = Swept(k) => Goes(k)
    BY <1>0, SweptFailsOrStays DEF Lifecycle!Stays, Lifecycle!Fail, Lifecycle!Becomes
  <2>3. ASSUME NEW j \in Jobs, Enqueue(j) PROVE Goes(k)
    <3>1. CASE j = k
      BY <1>0, <2>3, <3>1 DEF Enqueue, NoRow, Lifecycle!Enqueue, Lifecycle!Becomes, TypeOK
    <3>2. CASE j # k
      BY <2>1, <2>3, <3>2 DEF Enqueue, TypeOK
    <3> QED
      BY <3>1, <3>2
  <2>4. ASSUME NEW v \in Workers, NEW j \in Jobs, ClaimJob(v, j) PROVE Goes(k)
    <3>1. Claimable(j) /\ row' = [i \in Jobs |-> IF i = j THEN Granted(j, Identity[v]) ELSE Swept(i)]
      BY <2>4 DEF ClaimJob, NextInLine
    <3>2. CASE j = k
      <4>1. row'[k].status = "running" /\ row'[k].attempt = row[k].attempt + 1
        BY <3>1, <3>2, GrantedIsFresh, IdentityAssumption
      <4>2. row[k].status \in {"queued", "running"} /\ row[k].attempt < Budget[k]
        BY <3>1, <3>2, ClaimableRow
      <4>3. Lifecycle!Start(k)
        BY <1>0, <4>1, <4>2 DEF Lifecycle!Start, Lifecycle!Becomes
      <4> QED
        BY <4>3
    <3>3. CASE j # k
      BY <2>2, <3>1, <3>3
    <3> QED
      BY <3>2, <3>3
  <2>5. ASSUME NEW v \in Workers, ClaimNothing(v) PROVE Goes(k)
    BY <2>2, <2>5 DEF ClaimNothing
  <2>6. ASSUME NEW v \in Workers, CheckpointRenews(v) \/ CheckpointCancels(v) PROVE Goes(k)
    <3>1. row' = [row EXCEPT ![worker[v].job] =
                     [row[worker[v].job] EXCEPT !.expires = now + LeaseDuration]]
      BY <2>6 DEF CheckpointRenews, CheckpointCancels, Renewed
    <3>2. row'[k].status = row[k].status /\ row'[k].attempt = row[k].attempt
      BY <2>0, <3>1 DEF TypeOK, Row
    <3> QED
      BY <1>0, <3>2 DEF Lifecycle!Stays, Lifecycle!Becomes
  <2>7. ASSUME NEW v \in Workers, FinishWrites(v) \/ FailWrites(v) PROVE Goes(k)
    <3>1. worker[v].pc \in Writing
      BY <2>7 DEF FinishWrites, FailWrites, Writing
    <3>2. CASE worker[v].job = k
      <4>1. row[k].status = "running" /\ row[k].attempt = worker[v].seen
        BY <3>1, <3>2 DEF WritersHold, NothingCancelled, HoldsLease, Active
      <4>2. CASE FinishWrites(v)
        <5>1. row'[k] = Completed(row[k], "succeeded")
          BY <3>2, <4>2 DEF FinishWrites, NothingCancelled, TypeOK
        <5>2. row'[k].status = "succeeded" /\ row'[k].attempt = row[k].attempt
          BY <2>0, <5>1 DEF Completed, Unleased, Row
        <5>3. Lifecycle!Succeed(k)
          BY <1>0, <4>1, <5>2 DEF Lifecycle!Succeed, Lifecycle!Becomes
        <5> QED
          BY <5>3
      <4>3. CASE FailWrites(v)
        <5>1. row'[k] = Failed(k, row[k].attempt, worker[v].at)
          BY <3>2, <4>1, <4>3 DEF FailWrites, TypeOK
        <5>2. /\ row'[k].status = IF row[k].attempt >= Budget[k] THEN "failed" ELSE "queued"
              /\ row'[k].attempt = row[k].attempt
          BY <2>0, <5>1 DEF Failed, Unleased, Row
        <5>3. Lifecycle!Requeue(k) \/ Lifecycle!Fail(k)
          BY <1>0, <2>0, <4>1, <5>2 DEF Lifecycle!Requeue, Lifecycle!Fail, Lifecycle!Becomes
        <5> QED
          BY <5>3
      <4> QED
        BY <2>7, <4>2, <4>3
    <3>3. CASE worker[v].job # k
      <4>1. PICK r : row' = [row EXCEPT ![worker[v].job] = r]
        BY <2>7 DEF FinishWrites, FailWrites
      <4>2. row'[k] = row[k]
        BY <3>3, <4>1 DEF TypeOK
      <4> QED
        BY <2>1, <4>2
    <3> QED
      BY <3>2, <3>3
  <2>8. ASSUME NEW v \in Workers,
               \/ CheckpointLosesLease(v) \/ HandlerReturns(v) \/ HandlerFails(v)
               \/ FinishReads(v) \/ FinishEscapes(v) \/ FailEscapes(v)
               \/ Crash(v) \/ Restart(v) \/ Revive(v)
        PROVE  UNCHANGED row
    BY <2>8 DEF CheckpointLosesLease, HandlerReturns, HandlerFails, FinishReads,
                FinishEscapes, FailEscapes, Crash, Restart, Revive
  <2>9. Tick \/ UNCHANGED vars => UNCHANGED row
    BY DEF Tick, vars
  <2>10. UNCHANGED row => Goes(k)
    BY <2>1
  <2> HIDE DEF Goes
  <2> QED
    BY <2>3, <2>4, <2>5, <2>6, <2>7, <2>8, <2>9, <2>10 DEF Next, RunOnce, Undisturbed
<1>2. /\ [j \in Jobs |-> row[j].status]' \in [Jobs -> Lifecycle!Statuses]
      /\ [j \in Jobs |-> row[j].attempt]' \in [Jobs -> Nat]
  BY <1>0 DEF Row, Statuses, Active, Terminal, Lifecycle!Statuses
<1>3. \A j \in Jobs : Lifecycle!Moves(j) \/ Lifecycle!Stays(j)
  BY <1>1 DEF Lifecycle!Moves
<1>4. Lifecycle!Next
  BY <1>2, <1>3 DEF Lifecycle!Next
<1> QED
  BY <1>4

(* The status column moves only along the lifecycle diagram, for any       *)
(* number of jobs and workers, whatever crashes and expires.               *)
THEOREM LifecycleRefinement == ASSUME Undisturbed PROVE Spec => LifecycleSpec
<1> DEFINE IInv == /\ TypeOK /\ RowsFresh /\ FailuresAreCurrent /\ AttemptsWithinBudget
                   /\ NothingCancelled /\ WritersHold
<1>1. Init => IInv
  BY BudgetAssumption
     DEF Init, TypeOK, NoRow, Row, Idle, NoRequest, WorkerState, Request, WorkerPCs,
         RowsFresh, Fresh, Terminal, FailuresAreCurrent, AttemptsWithinBudget,
         NothingCancelled, WritersHold, Writing
<1>2. IInv /\ [Next]_vars => IInv'
  BY TypeStep, RowsStep, FailuresStep, AttemptsStep, NothingCancelledStep, WritersHoldStep
     DEF Undisturbed
<1>3. Init => Lifecycle!Init
  BY DEF Init, NoRow, Lifecycle!Init
<1>4. IInv /\ [Next]_vars => [Lifecycle!Next]_(Lifecycle!vars)
  BY LifecycleStep
<1> QED
  BY <1>1, <1>2, <1>3, <1>4, PTL DEF Spec, LifecycleSpec, Lifecycle!Spec

===============================================================================
