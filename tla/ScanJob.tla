------------------------------- MODULE ScanJob --------------------------------
(***************************************************************************)
(* A scan as a durable job: the worker's run_once (JobQueue) calls         *)
(* StaticScanJobHandler.execute, which runs the pipeline (Pipeline) with   *)
(* an event sink that calls the worker's checkpoint, enriches the report,  *)
(* saves it to the scan history and returns a reference to it, which       *)
(* becomes the job's result_ref.                                           *)
(*                                                                         *)
(* One worker executes the job in this detail; clients cancel and retry it *)
(* and the worker crashes and is restarted as in JobQueue.                 *)
(***************************************************************************)
EXTENDS Pipeline, Sequences

CONSTANTS
    Job,             \* the job under scrutiny
    Worker,          \* the worker that executes it
    Clients, WorkerIds, Identity, None, Budget, LeaseDuration, BackoffCap,
    MaxStall, TimelyWorkers, MaxRequests, MaxTime

(* Those of JobQueue, for one job and one worker. *)
ASSUME NoneAssumption == None \notin WorkerIds /\ None \notin Nat
ASSUME IdentityAssumption == Identity \in [{Worker} -> WorkerIds]
ASSUME BudgetAssumption == Budget \in [{Job} -> Nat \ {0}]
ASSUME TimeAssumption ==
    /\ LeaseDuration \in Nat \ {0}
    /\ BackoffCap \in Nat /\ MaxStall \in Nat
    /\ MaxRequests \in Nat /\ MaxTime \in Nat
    /\ TimelyWorkers \in BOOLEAN

VARIABLES
    now, row, worker, client,  \* the queue: see JobQueue
    step,            \* where execute is; "off" outside of it
    noticed,         \* cancellation_requested of the event sink
    ref,             \* the reference in the worker's hands
    history,         \* the saved reports, oldest first
    resultRef        \* the job's result_ref column

queueVars == <<now, row, worker, client>>
handlerVars == <<step, noticed, ref>>
scanVars == <<pipelineVars, queueVars, handlerVars, history, resultRef>>

Queue == INSTANCE JobQueue WITH
    Jobs <- {Job}, Workers <- {Worker}, MaxBeats <- 0

-------------------------------------------------------------------------------
Running == worker[Worker].pc = "handler"

ThisWorker(newPc) == worker' = [worker EXCEPT ![Worker] = [@ EXCEPT !.pc = newPc]]

Off == step' = "off" /\ noticed' = FALSE

(* Mutant of FreshPipeline: one object serves all jobs, and keeps the flag *)
(* that cancel() has set.                                                  *)
FreshPipeline_KeepsFlag ==
    /\ pc' = "source" /\ cancelled' = cancelled
    /\ found' = {} /\ todo' = {} /\ item' = NoItem
    /\ documents' = {} /\ parsed' = {} /\ normalized' = {} /\ chunked' = {}
    /\ warned' = FALSE /\ skipped' = {} /\ errors' = {}
    /\ ran' = {} /\ report' = NoReport
    /\ UNCHANGED config

(* Every execution makes a pipeline of its own and leaves it to the        *)
(* garbage collector.  It is the same scan, so the configuration stays.    *)
FreshPipeline ==
    /\ pc' = "source" /\ cancelled' = FALSE
    /\ found' = {} /\ todo' = {} /\ item' = NoItem
    /\ documents' = {} /\ parsed' = {} /\ normalized' = {} /\ chunked' = {}
    /\ warned' = FALSE /\ skipped' = {} /\ errors' = {}
    /\ ran' = {} /\ report' = NoReport
    /\ UNCHANGED config

(* The first checkpoint of run_once, and the start of execute. *)
Begins ==
    /\ worker[Worker].pc = "begin"
    /\ Queue!CheckpointRenews(Worker)
    /\ FreshPipeline
    /\ step' = "scan" /\ noticed' = FALSE /\ ref' = None
    /\ UNCHANGED <<history, resultRef>>

-------------------------------------------------------------------------------
(* The pipeline's events. *)

Leased == Queue!HoldsLease(Worker, Job)

CancelAsked == Leased /\ row[Job].status = "cancel_requested"

(* Mutant of Heartbeat: any event renews. *)
Heartbeat_Unleased == row' = Queue!Renewed(Job)

Heartbeat == row' = IF Leased THEN Queue!Renewed(Job) ELSE row

(* _CheckpointEventSink.emit.  A lost lease is swallowed by the pipeline.  *)
Scans ==
    /\ Running /\ step = "scan"
    /\ \/ Eventful /\ cancelled' = (cancelled \/ CancelAsked)
                   /\ noticed' = (noticed \/ CancelAsked)
                   /\ Heartbeat
       \/ Quiet /\ UNCHANGED <<cancelled, noticed, row>>
    /\ UNCHANGED <<now, worker, client, step, ref, history, resultRef>>

(* The report is built; _enrich_async and run_local check in from now on.  *)
BuildsReport ==
    /\ Running /\ step = "scan" /\ pc = "done"
    /\ step' = "enrich"
    /\ UNCHANGED <<pipelineVars, queueVars, noticed, ref, history, resultRef>>

-------------------------------------------------------------------------------
(* checkpoint(0.8) to checkpoint(0.98).  An enabled model provider is      *)
(* waited for with any number of checkpoints.                              *)

ChecksIn ==
    /\ Running /\ step \in {"enrich", "last"}
    /\ Leased /\ row[Job].status = "running"
    /\ Heartbeat
    /\ \/ step = "enrich" /\ step' \in {"enrich", "last"}
       \/ step = "last" /\ step' = "save"
    /\ UNCHANGED <<pipelineVars, now, worker, client, noticed, ref, history, resultRef>>

(* JobCancellationRequested, without a reference. *)
CheckInCancels ==
    /\ Running /\ step \in {"enrich", "last"}
    /\ CancelAsked
    /\ Heartbeat
    /\ ThisWorker("cancel")
    /\ Off
    /\ ref' = None
    /\ UNCHANGED <<pipelineVars, now, client, history, resultRef>>

CheckInLosesLease ==
    /\ Running /\ step \in {"enrich", "last"}
    /\ ~Leased
    /\ ThisWorker("fail")
    /\ Off
    /\ ref' = None
    /\ FreshPipeline
    /\ UNCHANGED <<now, row, client, history, resultRef>>

-------------------------------------------------------------------------------
(* Saving.  A report carries its scan's timestamps, so that its SHA-256    *)
(* differs from that of every other scan: save never finds it in place.    *)

Saves ==
    /\ Running /\ step = "save"
    /\ history' = Append(history, report.status)
    /\ step' = "saved"
    /\ ref' = Len(history')
    /\ UNCHANGED <<pipelineVars, queueVars, noticed, resultRef>>

(* run_local raises JobCancellationRequested, with the reference, if its   *)
(* sink has noticed a cancellation.                                        *)
Returns ==
    /\ Running /\ step = "saved"
    /\ ThisWorker(IF noticed THEN "cancel" ELSE "closing")
    /\ Off
    /\ FreshPipeline
    /\ UNCHANGED <<now, row, client, ref, history, resultRef>>

(* An exception anywhere in execute. *)
Fails ==
    /\ Running
    /\ ThisWorker("fail")
    /\ Off
    /\ ref' = None
    /\ FreshPipeline
    /\ UNCHANGED <<now, row, client, history, resultRef>>

Execute ==
    \/ Scans \/ BuildsReport
    \/ ChecksIn \/ CheckInCancels \/ CheckInLosesLease
    \/ Saves \/ Returns \/ Fails

-------------------------------------------------------------------------------
(* The queue around the handler. *)

(* What run_once does when the handler is not executing. *)
QueueSteps ==
    /\ ~Running
    /\ \/ Queue!ClaimJob(Worker, Job) \/ Queue!ClaimNothing(Worker)
       \/ worker[Worker].pc # "begin" /\ Queue!CheckpointRenews(Worker)
       \/ Queue!CheckpointLosesLease(Worker)
       \/ Queue!FinishReads(Worker) \/ Queue!FinishEscapes(Worker)
       \/ Queue!FailWrites(Worker) \/ Queue!FailEscapes(Worker)
       \/ Queue!Restart(Worker) \/ Queue!Revive(Worker)
    /\ UNCHANGED <<pipelineVars, handlerVars, history, resultRef>>

(* A cancellation at the first or last checkpoint carries no reference. *)
ClosingCancels ==
    /\ ~Running
    /\ Queue!CheckpointCancels(Worker)
    /\ ref' = None
    /\ UNCHANGED <<pipelineVars, step, noticed, history, resultRef>>

Finishes ==
    /\ Queue!FinishWrites(Worker)
    /\ resultRef' = ref
    /\ UNCHANGED <<pipelineVars, handlerVars, history>>

Crashes ==
    /\ Queue!Crash(Worker)
    /\ Off
    /\ ref' = None
    /\ FreshPipeline
    /\ UNCHANGED <<history, resultRef>>

Retries ==
    /\ \E c \in Clients : Queue!RetryWrites(c)
    /\ resultRef' = None
    /\ UNCHANGED <<pipelineVars, handlerVars, history>>

Others ==
    /\ \/ Queue!Enqueue(Job)
       \/ \E c \in Clients : \/ Queue!CancelReads(c, Job) \/ Queue!RetryReads(c, Job)
                             \/ Queue!CancelWrites(c)
       \/ Queue!Tick
    /\ UNCHANGED <<pipelineVars, handlerVars, history, resultRef>>

-------------------------------------------------------------------------------
ScanInit ==
    /\ Init
    /\ Queue!Init
    /\ step = "off" /\ noticed = FALSE /\ ref = None
    /\ history = <<>> /\ resultRef = None

ScanNext ==
    Begins \/ Execute \/ QueueSteps \/ ClosingCancels \/ Finishes \/ Crashes \/ Retries \/ Others

ScanSpec == ScanInit /\ [][ScanNext]_scanVars

-------------------------------------------------------------------------------
(* Properties. *)

(* A job that succeeded refers to the last report that was saved, that of  *)
(* its own attempt and not one that an earlier attempt left behind, and    *)
(* the scan of that report has run to its end.                             *)
SucceededJobsReport ==
    row[Job].status = "succeeded" =>
        /\ resultRef # None /\ resultRef = Len(history)
        /\ history[resultRef] \in {"completed", "completed_with_warnings", "failed"}

(* The events of the pipeline, which renew the lease from within a scan,   *)
(* still follow the lease protocol.                                        *)
ScanLeases == Queue!LeaseSpec

(* Cancellation preserves completed coverage: when the worker cancels a    *)
(* job whose scan was stopped with documents already processed, the job    *)
(* refers to the report of what has been processed.                        *)
CancellationKeepsCoverage ==
    [][Finishes /\ row'[Job].status = "cancelled"
          /\ report.status = "cancelled" /\ documents # {}
              => resultRef' # None]_scanVars

===============================================================================
