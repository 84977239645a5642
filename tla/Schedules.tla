------------------------------- MODULE Schedules ------------------------------
(***************************************************************************)
(* Recurring scans: the schedules table, its editors (the dashboard) and   *)
(* materialize_due, which turns due occurrences into jobs.  The agent's    *)
(* worker thread calls it in front of every run_once, and so does each     *)
(* run-once request of the dashboard.                                      *)
(*                                                                         *)
(* materialize_due holds one connection of the schedules engine.  Its      *)
(* SELECT runs in autocommit mode; the first UPDATE takes SQLite's single  *)
(* write lock, which is held until the commit at the end of the method.    *)
(* Between the two it calls enqueue of the job repository, whose engine    *)
(* has connections of its own: each enqueue commits by itself, and has to  *)
(* wait for the write lock like any other writer of the database.          *)
(***************************************************************************)
EXTENDS Naturals, FiniteSets

CONSTANTS
    Schedules,       \* ids of schedules, each created at most once
    Materializers,   \* threads that call materialize_due
    Agents,          \* those among them that an exception ends for good
    Intervals,       \* values of interval_minutes
    None,
    MaxEdits,        \* bound on the dashboard's writes to existing rows
    MaxOthers,       \* bound on the jobs that others enqueue meanwhile
    MaxTime          \* bound on the clock and on the times a form asks for

ASSUME AgentsAssumption == Agents \subseteq Materializers
ASSUME IntervalsAssumption == Intervals \subseteq Nat \ {0}
ASSUME NoneAssumption == None \notin Materializers
ASSUME BoundsAssumption == MaxEdits \in Nat /\ MaxOthers \in Nat /\ MaxTime \in Nat

VARIABLES
    now,
    schedule,        \* [Schedules -> the committed row]
    jobs,            \* [Keys -> number of jobs enqueued under the key]
    lock,            \* who holds the write lock
    run,             \* [Materializers -> materialize_due and its locals]
    edits, others

vars == <<now, schedule, jobs, lock, run, edits, others>>

-------------------------------------------------------------------------------
Times == 0 .. MaxTime

(* "schedule:<id>:<next_run_at>", the idempotency key of an occurrence. *)
Keys == Schedules \X Times

ScheduleRow == [life : {"unborn", "live", "deleted"}, enabled : BOOLEAN,
                next : Nat, interval : Intervals \cup {0}]

NoSchedule == [life |-> "unborn", enabled |-> FALSE, next |-> 0, interval |-> 0]

(* What materialize_due keeps of a row it has read. *)
Occurrence == [of : Schedules, at : Times, interval : Intervals]

NoOccurrence == [of |-> None, at |-> 0, interval |-> 0]

Key(o) == <<o.of, o.at>>

IsDue(s) == schedule[s].life = "live" /\ schedule[s].enabled /\ schedule[s].next <= now

DueRows == {[of |-> s, at |-> schedule[s].next, interval |-> schedule[s].interval] :
               s \in {t \in Schedules : IsDue(t)}}

(* todo: rows not yet handled; row: the one in hand; stale: somebody has    *)
(* inserted a job since enqueue read the largest display id; advanced: the  *)
(* rows whose UPDATE is not yet committed.                                  *)
Waiting == [pc |-> "idle", now |-> 0, todo |-> {}, row |-> NoOccurrence,
            stale |-> FALSE, advanced |-> {}]

-------------------------------------------------------------------------------
(* materialize_due. *)

SelectDue(m) ==
    /\ run[m].pc = "idle"
    /\ run' = [run EXCEPT ![m] = IF DueRows = {} THEN Waiting
                                 ELSE [Waiting EXCEPT !.pc = "next", !.now = now,
                                                      !.todo = DueRows]]
    /\ UNCHANGED <<now, schedule, jobs, lock, edits, others>>

(* The next row, ORDER BY next_run_at, id (ids are random), and the first  *)
(* statement of its enqueue: SELECT max(display_id).                       *)
EnqueueReads(m) ==
    /\ run[m].pc = "next"
    /\ \E o \in run[m].todo :
           /\ \A p \in run[m].todo : o.at <= p.at
           /\ run' = [run EXCEPT ![m] = [run[m] EXCEPT !.pc = "insert", !.row = o,
                                                      !.todo = run[m].todo \ {o},
                                                      !.stale = FALSE]]
    /\ UNCHANGED <<now, schedule, jobs, lock, edits, others>>

(* Mutant of Inserted: the idempotency key is not unique. *)
Inserted_Always(o) == [jobs EXCEPT ![Key(o)] = @ + 1]

(* INSERT ... ON CONFLICT (kind, idempotency_key) DO NOTHING. *)
Inserted(o) == IF jobs[Key(o)] = 0 THEN [jobs EXCEPT ![Key(o)] = 1] ELSE jobs

(* Display ids already read by the enqueues in progress are taken now. *)
OthersStale(m) ==
    [n \in Materializers |->
        IF n # m /\ run[n].pc = "insert" THEN [run[n] EXCEPT !.stale = TRUE] ELSE run[n]]

EnqueueInserts(m) ==
    /\ run[m].pc = "insert"
    /\ lock = None
    /\ run[m].stale => jobs[Key(run[m].row)] > 0
    /\ jobs' = Inserted(run[m].row)
    /\ run' = [(IF jobs' = jobs THEN run ELSE OthersStale(m))
                  EXCEPT ![m] = [run[m] EXCEPT !.pc = "update", !.stale = FALSE]]
    /\ UNCHANGED <<now, schedule, lock, edits, others>>

(* Mutant of Matches: the row is found by its id alone. *)
Matches_ById(o) == schedule[o.of].life = "live"

(* WHERE id = :id AND next_run_at = :occurrence. *)
Matches(o) == schedule[o.of].life = "live" /\ schedule[o.of].next = o.at

(* UPDATE takes the write lock even if no row matches. *)
UpdateAdvances(m) ==
    /\ run[m].pc = "update"
    /\ lock \in {None, m}
    /\ lock' = m
    /\ run' = [run EXCEPT ![m] =
           [run[m] EXCEPT !.pc = IF run[m].todo = {} THEN "commit" ELSE "next",
                          !.row = NoOccurrence,
                          !.advanced = IF Matches(run[m].row)
                                       THEN run[m].advanced \cup {run[m].row}
                                       ELSE run[m].advanced]]
    /\ UNCHANGED <<now, schedule, jobs, edits, others>>

(* Mutant of Following: the loop stops at the present. *)
Following_NotPast(o, t) ==
    IF o.at = t THEN t ELSE o.at + ((t - o.at - 1) \div o.interval + 1) * o.interval

(* while next_run <= current: next_run += interval *)
Following(o, t) == o.at + ((t - o.at) \div o.interval + 1) * o.interval

Commit(m) ==
    /\ run[m].pc = "commit"
    /\ schedule' = [s \in Schedules |->
           IF \E o \in run[m].advanced : o.of = s
           THEN LET o == CHOOSE o \in run[m].advanced : o.of = s
                IN  [schedule[s] EXCEPT !.next = Following(o, run[m].now)]
           ELSE schedule[s]]
    /\ lock' = None
    /\ run' = [run EXCEPT ![m] = Waiting]
    /\ UNCHANGED <<now, jobs, edits, others>>

-------------------------------------------------------------------------------
(* Failures: the transaction is rolled back; jobs enqueued so far remain.  *)

RollsBack(m, pc) ==
    /\ run' = [run EXCEPT ![m] = [Waiting EXCEPT !.pc = pc]]
    /\ lock' = IF lock = m THEN None ELSE lock
    /\ UNCHANGED <<now, schedule, jobs, edits, others>>

Raises(m) == RollsBack(m, IF m \in Agents THEN "dead" ELSE "idle")

(* UNIQUE (display_id): the number read by enqueue was used meanwhile. *)
DisplayIdTaken(m) ==
    /\ run[m].pc = "insert"
    /\ lock = None
    /\ run[m].stale /\ jobs[Key(run[m].row)] = 0
    /\ Raises(m)

(* A holder of the lock that waits for the lock waits for itself: after    *)
(* five seconds it, or whoever else waits, gets "database is locked".      *)
SelfBlocked(m) == lock = m /\ run[m].pc = "insert"

LockTimesOut(m) ==
    /\ run[m].pc \in {"insert", "update"}
    /\ \E n \in Materializers : SelfBlocked(n)
    /\ Raises(m)

Crash(m) ==
    /\ run[m].pc \notin {"idle", "dead", "crashed"}
    /\ RollsBack(m, "crashed")

Restart(m) ==
    /\ run[m].pc = "crashed"
    /\ run' = [run EXCEPT ![m] = Waiting]
    /\ UNCHANGED <<now, schedule, jobs, lock, edits, others>>

-------------------------------------------------------------------------------
(* The dashboard: one statement each.  An editor that cannot get the lock  *)
(* in time changes nothing.                                                *)

Writes(s, r) ==
    /\ lock = None
    /\ schedule' = [schedule EXCEPT ![s] = r]
    /\ UNCHANGED <<now, jobs, lock, run, others>>

Edits(s, r) ==
    /\ schedule[s].life = "live"
    /\ edits < MaxEdits
    /\ edits' = edits + 1
    /\ Writes(s, r)

(* With the first run asked for, or one interval from now. *)
Create(s, i) ==
    /\ schedule[s].life = "unborn"
    /\ \E t \in Times \cup {now + i} :
           Writes(s, [life |-> "live", enabled |-> TRUE, next |-> t, interval |-> i])
    /\ UNCHANGED edits

Delete(s) == Edits(s, [schedule[s] EXCEPT !.life = "deleted"])

SetEnabled(s) ==
    \/ Edits(s, [schedule[s] EXCEPT !.enabled = FALSE])
    \/ Edits(s, [schedule[s] EXCEPT !.enabled = TRUE, !.next = now])

(* Mutant of UpdateSchedule: the interval of the form is not validated. *)
UpdateSchedule_Unchecked(s, i) ==
    \E t \in Times, k \in {0, i} :
        Edits(s, [schedule[s] EXCEPT !.interval = k, !.next = t])

UpdateSchedule(s, i) ==
    \E t \in Times : Edits(s, [schedule[s] EXCEPT !.interval = i, !.next = t])

(* Another client of the job repository enqueues a job. *)
EnqueueOther ==
    /\ lock = None
    /\ others < MaxOthers
    /\ others' = others + 1
    /\ run' = OthersStale(None)
    /\ UNCHANGED <<now, schedule, jobs, lock, edits>>

Tick ==
    /\ now < MaxTime
    /\ now' = now + 1
    /\ UNCHANGED <<schedule, jobs, lock, run, edits, others>>

-------------------------------------------------------------------------------
Init ==
    /\ now = 0
    /\ schedule = [s \in Schedules |-> NoSchedule]
    /\ jobs = [k \in Keys |-> 0]
    /\ lock = None
    /\ run = [m \in Materializers |-> Waiting]
    /\ edits = 0 /\ others = 0

MaterializeDue(m) ==
    \/ SelectDue(m)
    \/ EnqueueReads(m)
    \/ EnqueueInserts(m)
    \/ UpdateAdvances(m)
    \/ Commit(m)
    \/ DisplayIdTaken(m)
    \/ LockTimesOut(m)

Edit(s) ==
    \/ \E i \in Intervals : Create(s, i) \/ UpdateSchedule(s, i)
    \/ Delete(s)
    \/ SetEnabled(s)

Next ==
    \/ \E m \in Materializers : MaterializeDue(m) \/ Crash(m) \/ Restart(m)
    \/ \E s \in Schedules : Edit(s)
    \/ EnqueueOther
    \/ Tick

Spec == Init /\ [][Next]_vars

(* The agent's loop calls materialize_due again and again; the service     *)
(* manager restarts a killed process; nobody restarts a dead thread.       *)
Fairness ==
    /\ \A m \in Agents : WF_vars(MaterializeDue(m)) /\ WF_vars(Restart(m))
    /\ WF_vars(Tick)

FairSpec == Spec /\ Fairness

-------------------------------------------------------------------------------
(* Properties. *)

PCs == {"idle", "next", "insert", "update", "commit", "dead", "crashed"}

RunState == [pc : PCs, now : Times, todo : SUBSET Occurrence,
             row : Occurrence \cup {NoOccurrence}, stale : BOOLEAN,
             advanced : SUBSET Occurrence]

TypeOK ==
    /\ now \in Times
    /\ schedule \in [Schedules -> ScheduleRow]
    /\ \A s \in Schedules : schedule[s].life # "unborn" => schedule[s].interval # 0
    /\ jobs \in [Keys -> Nat]
    /\ lock \in Materializers \cup {None}
    /\ run \in [Materializers -> RunState]
    /\ \A m \in Materializers : run[m].pc \in {"insert", "update"} => run[m].row # NoOccurrence
    /\ edits \in Nat /\ others \in Nat

(* One job per occurrence: two materializers that read the same due row,   *)
(* one that crashed between enqueueing and advancing, and a form that asks *)
(* for a time that has already run do not enqueue a second job.            *)
AtMostOneJob == \A k \in Keys : jobs[k] <= 1

Commits(m) == run[m].pc = "commit" /\ run'[m].pc = "idle" /\ lock' = None

(* A commit of materialize_due moves a schedule past an occurrence only if *)
(* that occurrence has its job: a time that an editor put in place of the  *)
(* one that was read is never skipped.                                     *)
NoOccurrenceLost ==
    [][\A m \in Materializers, s \in Schedules :
          Commits(m) /\ schedule'[s].next # schedule[s].next
              => jobs[<<s, schedule[s].next>>] > 0]_vars

(* A commit leaves nothing due as of the time the method was called with,  *)
(* and skips no occurrence later than that time: missed occurrences share  *)
(* one job, and calling the method twice at one time creates no second job.*)
MissedOccurrencesShareOneJob ==
    [][\A m \in Materializers, o \in Occurrence :
          Commits(m) /\ o \in run[m].advanced =>
              /\ schedule'[o.of].next > run[m].now
              /\ schedule'[o.of].next <= run[m].now + o.interval
              /\ (schedule'[o.of].next - o.at) % o.interval = 0]_vars

(* Every due occurrence is materialized: unless its schedule is paused,    *)
(* moved or deleted, its job is enqueued and the schedule moves on.        *)
DueSchedulesAdvance == \A s \in Schedules : IsDue(s) ~> ~IsDue(s)

===============================================================================
