---------------------------- MODULE SchedulesProofs ---------------------------
(***************************************************************************)
(* What holds of recurring scans for any number of schedules, agents and   *)
(* dashboard requests, any intervals and any edits.                        *)
(***************************************************************************)
EXTENDS Schedules, TLAPS

LEMMA DueRowsAreOccurrences == ASSUME TypeOK PROVE DueRows \subseteq Occurrence
<1> SUFFICES ASSUME NEW s \in Schedules, IsDue(s)
             PROVE  [of |-> s, at |-> schedule[s].next, interval |-> schedule[s].interval]
                        \in Occurrence
  BY DEF DueRows
<1>1. schedule[s] \in ScheduleRow /\ schedule[s].life # "unborn" /\ schedule[s].next <= now
  BY DEF TypeOK, IsDue
<1>2. schedule[s].next \in Times
  BY <1>1, BoundsAssumption DEF TypeOK, ScheduleRow, Times
<1>3. schedule[s].interval \in Intervals
  BY <1>1 DEF TypeOK, ScheduleRow
<1> QED
  BY <1>2, <1>3 DEF Occurrence

LEMMA WaitingIsRunState ==
  ASSUME NEW pc \in PCs
  PROVE  /\ [Waiting EXCEPT !.pc = pc] \in RunState
         /\ [Waiting EXCEPT !.pc = pc].pc = pc
         /\ Waiting \in RunState
         /\ Waiting.pc = "idle"
<1>1. 0 \in Times /\ "idle" \in PCs
  BY BoundsAssumption DEF Times, PCs
<1> QED
  BY <1>1 DEF Waiting, RunState

LEMMA FollowingIsNat ==
  ASSUME NEW o \in Occurrence, NEW t \in Times, o.at <= t PROVE Following(o, t) \in Nat
<1>1. o.at \in Nat /\ t \in Nat
  BY BoundsAssumption DEF Occurrence, Times
<1>4. o.interval \in Nat /\ o.interval > 0
  <2>1. o.interval \in Intervals
    BY DEF Occurrence
  <2>2. o.interval \in Nat \ {0}
    BY <2>1, IntervalsAssumption
  <2> QED
    BY <2>2
<1>2. (t - o.at) \div o.interval \in Nat
  BY <1>1, <1>4
<1>3. \A q, i \in Nat : (q + 1) * i \in Nat
  OBVIOUS
<1> QED
  BY <1>1, <1>2, <1>3, <1>4 DEF Following

-------------------------------------------------------------------------------
(* Types, and what a materializer knows of the rows it holds: they were    *)
(* due; a row it is about to advance has its job; and nobody can change a  *)
(* row it has advanced, because it holds the write lock until it commits.  *)

Sound(m) ==
    /\ \A o \in run[m].todo \cup run[m].advanced : o.at <= run[m].now
    /\ run[m].row # NoOccurrence => run[m].row.at <= run[m].now
    /\ run[m].pc = "update" => jobs[Key(run[m].row)] > 0
    /\ run[m].pc = "commit" => lock = m
    /\ \A o \in run[m].advanced : /\ lock = m
                                  /\ schedule[o.of].next = o.at
                                  /\ jobs[Key(o)] > 0

IInv == TypeOK /\ \A m \in Materializers : Sound(m)

LEMMA StaleIsRunState ==
  ASSUME TypeOK, NEW m
  PROVE  /\ OthersStale(m) \in [Materializers -> RunState]
         /\ \A n \in Materializers :
                OthersStale(m)[n] = [run[n] EXCEPT !.stale = OthersStale(m)[n].stale]
  BY DEF TypeOK, OthersStale, RunState

LEMMA KeyIsKey == ASSUME NEW o \in Occurrence PROVE Key(o) \in Keys
  BY DEF Key, Keys, Occurrence

LEMMA InsertedIsJobs ==
  ASSUME TypeOK, NEW o \in Occurrence
  PROVE  /\ Inserted(o) \in [Keys -> Nat]
         /\ Inserted(o)[Key(o)] > 0
         /\ \A k \in Keys : jobs[k] > 0 => Inserted(o)[k] > 0
         /\ (\A k \in Keys : jobs[k] <= 1) => \A k \in Keys : Inserted(o)[k] <= 1
  BY KeyIsKey DEF TypeOK, Inserted

(* A step of one materializer, as the others see it. *)
LEMMA OthersSound ==
  ASSUME IInv, NEW n \in Materializers, Sound(n),
         \/ run'[n] = run[n]
         \/ \E b \in BOOLEAN : run'[n] = [run[n] EXCEPT !.stale = b],
         \A k \in Keys : jobs[k] > 0 => jobs'[k] > 0,
         lock = n => lock' = n /\ UNCHANGED schedule
  PROVE  Sound(n)'
<1>1. run[n] \in RunState
  BY DEF IInv, TypeOK
<1>2. /\ run'[n].pc = run[n].pc /\ run'[n].now = run[n].now /\ run'[n].todo = run[n].todo
      /\ run'[n].row = run[n].row /\ run'[n].advanced = run[n].advanced
  BY <1>1 DEF RunState
<1>3. \A o \in run[n].advanced : Key(o) \in Keys
  BY <1>1, KeyIsKey DEF RunState
<1>4. run[n].pc = "update" => Key(run[n].row) \in Keys
  BY <1>1, KeyIsKey DEF RunState, IInv, TypeOK
<1> QED
  BY <1>2, <1>3, <1>4 DEF Sound, Key

LEMMA RestedRun ==
  ASSUME TypeOK, NEW m \in Materializers, NEW pc \in {"idle", "dead", "crashed"},
         run' = [run EXCEPT ![m] = [Waiting EXCEPT !.pc = pc]]
  PROVE  /\ run' \in [Materializers -> RunState]
         /\ \A n \in Materializers : run'[n].pc \in {"insert", "update"}
                                        => run'[n].row # NoOccurrence
<1>1. [Waiting EXCEPT !.pc = pc] \in RunState /\ [Waiting EXCEPT !.pc = pc].pc = pc
  BY WaitingIsRunState DEF PCs
<1> QED
  BY <1>1 DEF TypeOK

LEMMA IdleIsWaiting == [Waiting EXCEPT !.pc = "idle"] = Waiting
<1>1. Waiting.pc = "idle" /\ Waiting \in RunState
  BY WaitingIsRunState DEF PCs
<1> QED
  BY <1>1 DEF RunState

LEMMA RollsBackStep ==
  ASSUME IInv, NEW m \in Materializers, NEW pc \in {"idle", "dead", "crashed"},
         RollsBack(m, pc)
  PROVE  IInv'
<1>1. [Waiting EXCEPT !.pc = pc] \in RunState /\ [Waiting EXCEPT !.pc = pc].pc = pc
  BY WaitingIsRunState DEF PCs
<1>2. TypeOK'
  BY <1>1 DEF RollsBack, IInv, TypeOK
<1>3. Sound(m)'
  BY <1>1 DEF RollsBack, Sound, Waiting, IInv, TypeOK
<1>4. ASSUME NEW n \in Materializers \ {m} PROVE Sound(n)'
  BY OthersSound DEF RollsBack, IInv, TypeOK
<1> QED
  BY <1>2, <1>3, <1>4 DEF IInv

LEMMA EditStep ==
  ASSUME IInv, NEW s \in Schedules, NEW r \in ScheduleRow, r.life # "unborn" => r.interval # 0,
         NEW e \in Nat, edits' = e, Writes(s, r)
  PROVE  IInv'
<1>1. TypeOK'
  BY DEF Writes, IInv, TypeOK
<1>2. ASSUME NEW n \in Materializers PROVE Sound(n)'
  BY OthersSound, NoneAssumption DEF Writes, IInv
<1> QED
  BY <1>1, <1>2 DEF IInv

LEMMA InitSound == Init => IInv
<1> SUFFICES ASSUME Init PROVE IInv
  OBVIOUS
<1>1. 0 \in Times
  BY BoundsAssumption DEF Times
<1>2. TypeOK
  <2>1. NoSchedule \in ScheduleRow /\ NoSchedule.life = "unborn"
    BY DEF NoSchedule, ScheduleRow
  <2>2. run \in [Materializers -> RunState] /\ \A m \in Materializers : run[m].pc = "idle"
    <3>1. Waiting \in RunState /\ Waiting.pc = "idle"
      BY WaitingIsRunState DEF PCs
    <3> QED
      BY <3>1 DEF Init
  <2>3. jobs \in [Keys -> Nat]
    BY DEF Init
  <2> QED
    BY <1>1, <2>1, <2>2, <2>3 DEF Init, TypeOK
<1>3. ASSUME NEW m \in Materializers PROVE Sound(m)
  BY DEF Init, Sound, Waiting
<1> QED
  BY <1>2, <1>3 DEF IInv

LEMMA SelectStep == ASSUME IInv, NEW m \in Materializers, SelectDue(m) PROVE IInv'
<1> DEFINE r == IF DueRows = {} THEN Waiting
                ELSE [Waiting EXCEPT !.pc = "next", !.now = now, !.todo = DueRows]
<1>1. r \in RunState
  BY WaitingIsRunState, DueRowsAreOccurrences DEF RunState, PCs, IInv, TypeOK
<1>2. run' = [run EXCEPT ![m] = r] /\ UNCHANGED <<now, schedule, jobs, lock, edits, others>>
  BY DEF SelectDue
<1>3. r.pc \in {"idle", "next"} /\ r.advanced = {} /\ r.row = NoOccurrence
  BY DEF Waiting
<1>4. \A o \in r.todo : o.at <= r.now
  BY DEF Waiting, DueRows, IsDue
<1>5. TypeOK'
  BY <1>1, <1>2, <1>3 DEF IInv, TypeOK
<1>6. run'[m] = r
  BY <1>2 DEF IInv, TypeOK
<1> HIDE DEF r
<1>7. Sound(m)'
  BY <1>2, <1>3, <1>4, <1>6 DEF Sound
<1>8. ASSUME NEW n \in Materializers \ {m} PROVE Sound(n)'
  BY <1>2, OthersSound DEF IInv, TypeOK
<1> QED
  BY <1>5, <1>7, <1>8 DEF IInv

LEMMA ReadsStep == ASSUME IInv, NEW m \in Materializers, EnqueueReads(m) PROVE IInv'
<1>1. PICK o \in run[m].todo :
          run' = [run EXCEPT ![m] = [run[m] EXCEPT !.pc = "insert", !.row = o,
                                                  !.todo = run[m].todo \ {o}, !.stale = FALSE]]
  BY DEF EnqueueReads
<1>2. UNCHANGED <<now, schedule, jobs, lock, edits, others>>
  BY DEF EnqueueReads
<1>3. run[m] \in RunState /\ Sound(m)
  BY DEF IInv, TypeOK
<1>4. o \in Occurrence /\ o.at <= run[m].now
  BY <1>3 DEF RunState, Sound
<1>5. o # NoOccurrence
  BY <1>4, IntervalsAssumption DEF Occurrence, NoOccurrence
<1>6. /\ run'[m].pc = "insert" /\ run'[m].row = o /\ run'[m].todo = run[m].todo \ {o}
      /\ run'[m].advanced = run[m].advanced /\ run'[m].now = run[m].now
      /\ run'[m] \in RunState
  BY <1>1, <1>3, <1>4 DEF RunState, PCs, IInv, TypeOK
<1>7. TypeOK'
  BY <1>1, <1>2, <1>5, <1>6 DEF IInv, TypeOK
<1>8. Sound(m)'
  BY <1>2, <1>3, <1>4, <1>6 DEF Sound, Key
<1>9. ASSUME NEW n \in Materializers \ {m} PROVE Sound(n)'
  BY <1>1, <1>2, OthersSound DEF IInv, TypeOK
<1> QED
  BY <1>7, <1>8, <1>9 DEF IInv

LEMMA InsertStep == ASSUME IInv, NEW m \in Materializers, EnqueueInserts(m) PROVE IInv'
<1>1. /\ run[m] \in RunState /\ Sound(m) /\ run[m].pc = "insert"
      /\ run[m].row \in Occurrence
  BY DEF IInv, TypeOK, EnqueueInserts, RunState
<1>2. /\ jobs' = Inserted(run[m].row) /\ lock = None
      /\ UNCHANGED <<now, schedule, lock, edits, others>>
  BY DEF EnqueueInserts
<1>3. PICK g \in [Materializers -> RunState] :
          /\ run' = [g EXCEPT ![m] = [run[m] EXCEPT !.pc = "update", !.stale = FALSE]]
          /\ \A n \in Materializers : \/ g[n] = run[n]
                                      \/ \E b \in BOOLEAN : g[n] = [run[n] EXCEPT !.stale = b]
  <2>1. CASE jobs' = jobs
    BY <2>1 DEF EnqueueInserts, IInv, TypeOK
  <2>2. CASE jobs' # jobs
    <3>1. \A n \in Materializers : OthersStale(m)[n].stale \in BOOLEAN
      BY StaleIsRunState DEF IInv, RunState
    <3>2. run' = [OthersStale(m) EXCEPT ![m] = [run[m] EXCEPT !.pc = "update", !.stale = FALSE]]
      BY <2>2 DEF EnqueueInserts
    <3>3. \A n \in Materializers : \E b \in BOOLEAN :
              OthersStale(m)[n] = [run[n] EXCEPT !.stale = b]
      BY <3>1, StaleIsRunState DEF IInv
    <3> QED
      BY <3>2, <3>3, StaleIsRunState DEF IInv
  <2> QED
    BY <2>1, <2>2
<1>4. /\ run'[m] \in RunState /\ run'[m].pc = "update" /\ run'[m].row = run[m].row
      /\ run'[m].todo = run[m].todo /\ run'[m].advanced = run[m].advanced
      /\ run'[m].now = run[m].now
  BY <1>1, <1>3 DEF RunState, PCs
<1>5. \A n \in Materializers \ {m} : run'[n] = g[n]
  BY <1>3
<1>6. jobs' \in [Keys -> Nat] /\ jobs'[Key(run[m].row)] > 0
      /\ \A k \in Keys : jobs[k] > 0 => jobs'[k] > 0
  BY <1>1, <1>2, InsertedIsJobs DEF IInv
<1>7. run[m].row # NoOccurrence
  BY <1>1 DEF IInv, TypeOK
<1>8. \A n \in Materializers \ {m} : run'[n].pc = run[n].pc /\ run'[n].row = run[n].row
  BY <1>3, <1>5 DEF IInv, TypeOK, RunState
<1>9. TypeOK'
  <2>1. run' \in [Materializers -> RunState]
    BY <1>3, <1>4
  <2>2. \A n \in Materializers : run'[n].pc \in {"insert", "update"} => run'[n].row # NoOccurrence
    BY <1>4, <1>7, <1>8 DEF IInv, TypeOK
  <2> QED
    BY <1>2, <1>6, <2>1, <2>2 DEF IInv, TypeOK
<1>10. run[m].advanced = {}
  BY <1>1, <1>2, NoneAssumption DEF Sound
<1>11. Sound(m)'
  BY <1>1, <1>2, <1>4, <1>6, <1>10 DEF Sound, Key
<1>12. ASSUME NEW n \in Materializers \ {m} PROVE Sound(n)'
  BY <1>2, <1>3, <1>5, <1>6, OthersSound, NoneAssumption DEF IInv
<1> QED
  BY <1>9, <1>11, <1>12 DEF IInv

LEMMA AdvanceStep == ASSUME IInv, NEW m \in Materializers, UpdateAdvances(m) PROVE IInv'
<1> DEFINE o == run[m].row
<1>1. /\ run[m] \in RunState /\ Sound(m) /\ run[m].pc = "update" /\ o \in Occurrence
      /\ o # NoOccurrence
  BY DEF IInv, TypeOK, UpdateAdvances, RunState
<1>2. lock \in {None, m} /\ lock' = m /\ UNCHANGED <<now, schedule, jobs, edits, others>>
  BY DEF UpdateAdvances
<1>3. PICK pc \in {"commit", "next"}, a \in {run[m].advanced, run[m].advanced \cup {o}} :
          /\ run' = [run EXCEPT ![m] = [run[m] EXCEPT !.pc = pc, !.row = NoOccurrence,
                                                     !.advanced = a]]
          /\ a # run[m].advanced => schedule[o.of].next = o.at
  BY DEF UpdateAdvances, Matches
<1>4. a \in SUBSET Occurrence
  BY <1>1, <1>3 DEF RunState
<1>5. /\ run'[m] \in RunState /\ run'[m].pc = pc /\ run'[m].row = NoOccurrence
      /\ run'[m].todo = run[m].todo /\ run'[m].advanced = a /\ run'[m].now = run[m].now
  BY <1>1, <1>3, <1>4 DEF RunState, PCs, IInv, TypeOK
<1>6. TypeOK'
  BY <1>2, <1>3, <1>5 DEF IInv, TypeOK
<1>7. ASSUME NEW p \in a
      PROVE  p.at <= run[m].now /\ schedule[p.of].next = p.at /\ jobs[Key(p)] > 0
  <2>1. CASE p \in run[m].advanced
    BY <1>1, <2>1 DEF Sound
  <2>2. CASE p \notin run[m].advanced
    BY <1>1, <1>3, <2>2 DEF Sound
  <2> QED
    BY <2>1, <2>2
<1>8. Sound(m)'
  BY <1>1, <1>2, <1>5, <1>7 DEF Sound, Key
<1>9. ASSUME NEW n \in Materializers \ {m} PROVE Sound(n)'
  BY <1>2, <1>3, OthersSound, NoneAssumption DEF IInv, TypeOK
<1> QED
  BY <1>6, <1>8, <1>9 DEF IInv

LEMMA CommitStep == ASSUME IInv, NEW m \in Materializers, Commit(m) PROVE IInv'
<1>1. run[m] \in RunState /\ Sound(m) /\ lock = m
  BY DEF IInv, TypeOK, Commit, Sound
<1>2. schedule' \in [Schedules -> ScheduleRow]
      /\ \A s \in Schedules : schedule'[s].life # "unborn" => schedule'[s].interval # 0
  <2> SUFFICES ASSUME NEW s \in Schedules
               PROVE  /\ schedule'[s] \in ScheduleRow
                      /\ schedule'[s].life # "unborn" => schedule'[s].interval # 0
    BY DEF Commit
  <2>1. schedule[s] \in ScheduleRow /\ (schedule[s].life # "unborn" => schedule[s].interval # 0)
    BY DEF IInv, TypeOK
  <2>2. CASE \E o \in run[m].advanced : o.of = s
    <3>1. PICK o \in run[m].advanced :
              schedule'[s] = [schedule[s] EXCEPT !.next = Following(o, run[m].now)]
      <4>1. (CHOOSE o \in run[m].advanced : o.of = s) \in run[m].advanced
        BY <2>2
      <4> QED
        BY <2>2, <4>1 DEF Commit
    <3>2. o \in Occurrence /\ o.at <= run[m].now /\ run[m].now \in Times
      BY <1>1 DEF RunState, Sound
    <3>3. Following(o, run[m].now) \in Nat
      BY <3>2, FollowingIsNat
    <3> QED
      BY <2>1, <3>1, <3>3 DEF ScheduleRow, IInv, TypeOK
  <2>3. CASE ~ \E o \in run[m].advanced : o.of = s
    BY <2>1, <2>3 DEF Commit, IInv, TypeOK
  <2> QED
    BY <2>2, <2>3
<1>3. TypeOK'
  <2>1. /\ run' = [run EXCEPT ![m] = [Waiting EXCEPT !.pc = "idle"]] /\ lock' = None
        /\ UNCHANGED <<now, jobs, edits, others>>
    BY IdleIsWaiting DEF Commit
  <2> QED
    BY <1>2, <2>1, RestedRun DEF IInv, TypeOK
<1>4. Sound(m)'
  BY WaitingIsRunState DEF Commit, Sound, Waiting, IInv, TypeOK
<1>5. ASSUME NEW n \in Materializers \ {m} PROVE Sound(n)'
  BY <1>1, OthersSound DEF Commit, IInv, TypeOK
<1> QED
  BY <1>3, <1>4, <1>5 DEF IInv

LEMMA SoundStep == IInv /\ [Next]_vars => IInv'
<1> SUFFICES ASSUME IInv, [Next]_vars PROVE IInv'
  OBVIOUS
<1>1. ASSUME NEW m \in Materializers, MaterializeDue(m) PROVE IInv'
  <2>1. CASE DisplayIdTaken(m) \/ LockTimesOut(m)
    BY <2>1, RollsBackStep DEF DisplayIdTaken, LockTimesOut, Raises
  <2> QED
    BY <1>1, <2>1, SelectStep, ReadsStep, InsertStep, AdvanceStep, CommitStep DEF MaterializeDue
<1>2. ASSUME NEW m \in Materializers, Crash(m) PROVE IInv'
  BY <1>2, RollsBackStep DEF Crash
<1>3. ASSUME NEW m \in Materializers, Restart(m) PROVE IInv'
  <2>1. TypeOK'
    <3>1. /\ run' = [run EXCEPT ![m] = [Waiting EXCEPT !.pc = "idle"]]
          /\ UNCHANGED <<now, schedule, jobs, lock, edits, others>>
      BY <1>3, IdleIsWaiting DEF Restart
    <3> QED
      BY <3>1, RestedRun DEF IInv, TypeOK
  <2>2. Sound(m)'
    BY <1>3 DEF Restart, Sound, Waiting, IInv, TypeOK
  <2>3. ASSUME NEW n \in Materializers \ {m} PROVE Sound(n)'
    BY <1>3, OthersSound DEF Restart, IInv, TypeOK
  <2> QED
    BY <2>1, <2>2, <2>3 DEF IInv
<1>4. ASSUME NEW s \in Schedules, Edit(s) PROVE IInv'
  <2>1. schedule[s] \in ScheduleRow /\ (schedule[s].life # "unborn" => schedule[s].interval # 0)
    BY DEF IInv, TypeOK
  <2>2. now \in Nat /\ edits \in Nat /\ Times \subseteq Nat
    BY BoundsAssumption DEF IInv, TypeOK, Times
  <2>3. ASSUME NEW i \in Intervals, Create(s, i) PROVE IInv'
    <3>0. i \in Nat \ {0}
      BY IntervalsAssumption
    <3>1. PICK t \in Nat : Writes(s, [life |-> "live", enabled |-> TRUE, next |-> t, interval |-> i])
      <4>1. PICK t \in Times \cup {now + i} :
                Writes(s, [life |-> "live", enabled |-> TRUE, next |-> t, interval |-> i])
        BY <2>3 DEF Create
      <4>2. t \in Nat
        BY <2>2, <3>0
      <4> QED
        BY <4>1, <4>2
    <3>2. [life |-> "live", enabled |-> TRUE, next |-> t, interval |-> i] \in ScheduleRow
      BY DEF ScheduleRow
    <3>3. edits' = edits
      BY <2>3 DEF Create
    <3> QED
      BY <2>2, <3>0, <3>1, <3>2, <3>3, EditStep
  <2>4. ASSUME NEW r \in ScheduleRow, r.interval # 0, Edits(s, r) PROVE IInv'
    BY <2>2, <2>4, EditStep DEF Edits
  <2>5. ASSUME NEW i \in Intervals, UpdateSchedule(s, i) PROVE IInv'
    <3>0. i # 0
      BY IntervalsAssumption
    <3>1. PICK t \in Times : Edits(s, [schedule[s] EXCEPT !.interval = i, !.next = t])
      BY <2>5 DEF UpdateSchedule
    <3>2. /\ [schedule[s] EXCEPT !.interval = i, !.next = t] \in ScheduleRow
          /\ [schedule[s] EXCEPT !.interval = i, !.next = t].interval = i
      BY <2>1, <2>2 DEF ScheduleRow
    <3> QED
      BY <2>4, <3>0, <3>1, <3>2
  <2>6. ASSUME Delete(s) PROVE IInv'
    <3>1. schedule[s].interval # 0
      BY <2>1, <2>6 DEF Delete, Edits
    <3>2. /\ [schedule[s] EXCEPT !.life = "deleted"] \in ScheduleRow
          /\ [schedule[s] EXCEPT !.life = "deleted"].interval = schedule[s].interval
      BY <2>1 DEF ScheduleRow
    <3> QED
      BY <2>4, <2>6, <3>1, <3>2 DEF Delete
  <2>7. ASSUME SetEnabled(s) PROVE IInv'
    <3>1. schedule[s].interval # 0
      BY <2>1, <2>7 DEF SetEnabled, Edits
    <3>2. /\ [schedule[s] EXCEPT !.enabled = FALSE] \in ScheduleRow
          /\ [schedule[s] EXCEPT !.enabled = FALSE].interval = schedule[s].interval
          /\ [schedule[s] EXCEPT !.enabled = TRUE, !.next = now] \in ScheduleRow
          /\ [schedule[s] EXCEPT !.enabled = TRUE, !.next = now].interval = schedule[s].interval
      BY <2>1, <2>2 DEF ScheduleRow
    <3> QED
      BY <2>4, <2>7, <3>1, <3>2 DEF SetEnabled
  <2> QED
    BY <1>4, <2>3, <2>5, <2>6, <2>7 DEF Edit
<1>5. CASE EnqueueOther
  <2>1. /\ run' = OthersStale(None) /\ UNCHANGED <<now, schedule, jobs, lock, edits>>
        /\ others' \in Nat /\ lock = None
    BY <1>5 DEF EnqueueOther, IInv, TypeOK
  <2>2. \A n \in Materializers : \E b \in BOOLEAN : run'[n] = [run[n] EXCEPT !.stale = b]
    BY <2>1, StaleIsRunState DEF IInv, RunState
  <2>3. \A n \in Materializers : run'[n].pc = run[n].pc /\ run'[n].row = run[n].row
    BY <2>2 DEF IInv, TypeOK, RunState
  <2>4. TypeOK'
    BY <2>1, <2>3, StaleIsRunState DEF IInv, TypeOK
  <2>5. ASSUME NEW n \in Materializers PROVE Sound(n)'
    BY <2>1, <2>2, OthersSound DEF IInv
  <2> QED
    BY <2>4, <2>5 DEF IInv
<1>6. CASE Tick
  <2>1. TypeOK'
    BY <1>6, BoundsAssumption DEF Tick, IInv, TypeOK, Times
  <2>2. ASSUME NEW n \in Materializers PROVE Sound(n)'
    BY <1>6, OthersSound DEF Tick, IInv
  <2> QED
    BY <2>1, <2>2 DEF IInv
<1>7. CASE UNCHANGED vars
  BY <1>7 DEF vars, IInv, TypeOK, Sound, Key
<1> QED
  BY <1>1, <1>2, <1>3, <1>4, <1>5, <1>6, <1>7 DEF Next

LEMMA AlwaysSound == Spec => []IInv
  BY InitSound, SoundStep, PTL DEF Spec

(* Every variable keeps its type: schedules in use have an interval, due   *)
(* times are natural numbers.                                              *)
THEOREM SchedulesTypeCorrect == Spec => []TypeOK
<1>1. IInv => TypeOK
  BY DEF IInv
<1> QED
  BY <1>1, AlwaysSound, PTL

(* However many materializers run, crash or fail, and whatever is edited,  *)
(* no occurrence is enqueued twice.                                        *)
THEOREM OneJobPerOccurrence == Spec => []AtMostOneJob
<1>1. Init => AtMostOneJob
  BY DEF Init, AtMostOneJob
<1>2. ASSUME IInv, AtMostOneJob, [Next]_vars PROVE AtMostOneJob'
  <2>1. ASSUME NEW m \in Materializers, EnqueueInserts(m) PROVE AtMostOneJob'
    <3>1. run[m].row \in Occurrence /\ jobs' = Inserted(run[m].row)
      BY <1>2, <2>1 DEF EnqueueInserts, IInv, TypeOK, RunState
    <3> QED
      BY <1>2, <3>1, InsertedIsJobs DEF IInv, AtMostOneJob
  <2>2. CASE UNCHANGED jobs
    BY <1>2, <2>2 DEF AtMostOneJob
  <2>3. ASSUME NEW m \in Materializers,
               \/ SelectDue(m) \/ EnqueueReads(m) \/ UpdateAdvances(m) \/ Commit(m)
               \/ DisplayIdTaken(m) \/ LockTimesOut(m) \/ Crash(m) \/ Restart(m)
        PROVE  UNCHANGED jobs
    BY <2>3 DEF SelectDue, EnqueueReads, UpdateAdvances, Commit, DisplayIdTaken, LockTimesOut,
                Crash, Restart, Raises, RollsBack
  <2>4. ASSUME NEW s \in Schedules, Edit(s) PROVE UNCHANGED jobs
    BY <2>4 DEF Edit, Create, UpdateSchedule, Delete, SetEnabled, Edits, Writes
  <2>5. EnqueueOther \/ Tick \/ UNCHANGED vars => UNCHANGED jobs
    BY DEF EnqueueOther, Tick, vars
  <2> QED
    BY <1>2, <2>1, <2>2, <2>3, <2>4, <2>5 DEF Next, MaterializeDue
<1> QED
  BY <1>1, <1>2, AlwaysSound, PTL DEF Spec

(* A commit passes an occurrence only if that occurrence has its job.      *)
THEOREM OccurrencesAreNotLost == Spec => NoOccurrenceLost
<1> DEFINE A == \A m \in Materializers, s \in Schedules :
                    Commits(m) /\ schedule'[s].next # schedule[s].next
                        => jobs[<<s, schedule[s].next>>] > 0
<1>1. ASSUME IInv, [Next]_vars PROVE A
  <2> SUFFICES ASSUME NEW m \in Materializers, NEW s \in Schedules, Commits(m),
                      schedule'[s].next # schedule[s].next
               PROVE  jobs[<<s, schedule[s].next>>] > 0
    OBVIOUS
  <2>1. lock = m /\ m # None /\ lock' = None /\ run[m].pc = "commit" /\ Sound(m)
    BY <1>1, NoneAssumption DEF Commits, IInv, Sound
  <2>2. ASSUME Commit(m) PROVE jobs[<<s, schedule[s].next>>] > 0
    <3>1. PICK o \in run[m].advanced : o.of = s
      BY <1>1, <2>2 DEF Commit, IInv, TypeOK
    <3> QED
      BY <2>1, <3>1 DEF Sound, Key
  <2>3. ASSUME NEW n \in Materializers, n # m, Commit(n) PROVE FALSE
    BY <1>1, <2>1, <2>3 DEF Commit, IInv, Sound
  <2>4. CASE UNCHANGED schedule
    BY <2>4
  <2>5. ASSUME NEW n \in Materializers,
               \/ SelectDue(n) \/ EnqueueReads(n) \/ EnqueueInserts(n) \/ UpdateAdvances(n)
               \/ DisplayIdTaken(n) \/ LockTimesOut(n) \/ Crash(n) \/ Restart(n)
        PROVE  UNCHANGED schedule
    BY <2>5 DEF SelectDue, EnqueueReads, EnqueueInserts, UpdateAdvances, DisplayIdTaken,
                LockTimesOut, Crash, Restart, Raises, RollsBack
  <2>6. ASSUME NEW t \in Schedules, Edit(t) PROVE FALSE
    BY <2>1, <2>6 DEF Edit, Create, UpdateSchedule, Delete, SetEnabled, Edits, Writes
  <2>7. EnqueueOther \/ Tick \/ UNCHANGED vars => UNCHANGED schedule
    BY DEF EnqueueOther, Tick, vars
  <2> QED
    BY <1>1, <2>2, <2>3, <2>4, <2>5, <2>6, <2>7 DEF Next, MaterializeDue
<1>2. IInv /\ [Next]_vars => [A]_vars
  BY <1>1
<1> QED
  BY <1>2, AlwaysSound, PTL DEF Spec, NoOccurrenceLost

-------------------------------------------------------------------------------
(* Missed occurrences. *)

(* What a materializer has in hand of its one SELECT: each schedule once.  *)
Held(m) == run[m].todo \cup run[m].advanced \cup ({run[m].row} \ {NoOccurrence})

HeldOnce == \A m \in Materializers : \A o, p \in Held(m) : o.of = p.of => o = p

(* A materializer whose display id was taken holds what it held. *)
LEMMA StaleKeepsHeld ==
  ASSUME TypeOK, NEW m, NEW n \in Materializers
  PROVE  /\ OthersStale(m)[n].todo = run[n].todo /\ OthersStale(m)[n].row = run[n].row
         /\ OthersStale(m)[n].advanced = run[n].advanced
<1>1. run[n] \in RunState
  BY DEF TypeOK
<1>2. OthersStale(m)[n] \in {run[n], [run[n] EXCEPT !.stale = TRUE]}
  BY DEF OthersStale
<1> QED
  BY <1>1, <1>2 DEF RunState

(* What a materializer holds after a step, it held before, or has just     *)
(* read from the table.                                                    *)
LEMMA HeldOnceStep == IInv /\ HeldOnce /\ [Next]_vars => HeldOnce'
<1> SUFFICES ASSUME IInv, HeldOnce, [Next]_vars, NEW m \in Materializers
             PROVE  \A o, p \in Held(m)' : o.of = p.of => o = p
  BY DEF HeldOnce
<1>1. ASSUME Held(m)' \subseteq Held(m)
      PROVE  \A o, p \in Held(m)' : o.of = p.of => o = p
  BY <1>1 DEF HeldOnce
<1>2. run[m] \in RunState /\ run \in [Materializers -> RunState]
  BY DEF IInv, TypeOK
<1>3. ASSUME run'[m].todo = {}, run'[m].advanced = {}, run'[m].row = NoOccurrence
      PROVE  Held(m)' \subseteq Held(m)
  BY <1>3 DEF Held
<1>4. ASSUME run'[m].todo = run[m].todo, run'[m].advanced = run[m].advanced, run'[m].row = run[m].row
      PROVE  Held(m)' \subseteq Held(m)
  BY <1>4 DEF Held
<1>5. /\ Waiting.todo = {} /\ Waiting.advanced = {} /\ Waiting.row = NoOccurrence
      /\ \A pc : LET r == [Waiting EXCEPT !.pc = pc] IN r.todo = {} /\ r.advanced = {} /\ r.row = NoOccurrence
  BY DEF Waiting
<1>6. ASSUME NEW n \in Materializers, SelectDue(n)
      PROVE  \A o, p \in Held(m)' : o.of = p.of => o = p
  <2>1. CASE n # m \/ DueRows = {}
    BY <1>1, <1>2, <1>3, <1>4, <1>5, <1>6, <2>1 DEF SelectDue
  <2>2. CASE n = m /\ DueRows # {}
    <3>1. run'[m] = [Waiting EXCEPT !.pc = "next", !.now = now, !.todo = DueRows]
      BY <1>2, <1>6, <2>2 DEF SelectDue
    <3>2. run'[m].todo = DueRows /\ run'[m].advanced = {} /\ run'[m].row = NoOccurrence
      BY <3>1 DEF Waiting
    <3>3. Held(m)' \subseteq DueRows
      BY <3>2 DEF Held
    <3>4. \A o \in DueRows : o = [of |-> o.of, at |-> schedule[o.of].next, interval |-> schedule[o.of].interval]
      BY DEF DueRows
    <3> QED
      BY <3>3, <3>4
  <2> QED
    BY <2>1, <2>2
<1>7. ASSUME NEW n \in Materializers, EnqueueReads(n)
      PROVE  Held(m)' \subseteq Held(m)
  <2>1. CASE n # m
    BY <1>2, <1>4, <1>7, <2>1 DEF EnqueueReads
  <2>2. CASE n = m
    <3>1. PICK o \in run[m].todo :
              run' = [run EXCEPT ![m] = [run[m] EXCEPT !.pc = "insert", !.row = o, !.todo = run[m].todo \ {o}, !.stale = FALSE]]
      BY <1>7, <2>2 DEF EnqueueReads
    <3>2. run'[m].row = o /\ run'[m].todo \subseteq run[m].todo /\ run'[m].advanced = run[m].advanced
      BY <1>2, <3>1 DEF RunState
    <3> QED
      BY <3>2 DEF Held
  <2> QED
    BY <2>1, <2>2
<1>8. ASSUME NEW n \in Materializers, EnqueueInserts(n)
      PROVE  Held(m)' \subseteq Held(m)
  <2>1. \A k \in Materializers : /\ OthersStale(n)[k].todo = run[k].todo /\ OthersStale(n)[k].row = run[k].row
                                 /\ OthersStale(n)[k].advanced = run[k].advanced
    BY StaleKeepsHeld DEF IInv
  <2>2. PICK r : r = [run[n] EXCEPT !.pc = "update", !.stale = FALSE]
    OBVIOUS
  <2>3. r.todo = run[n].todo /\ r.row = run[n].row /\ r.advanced = run[n].advanced
    BY <1>2, <2>2 DEF RunState
  <2>4. PICK g \in [Materializers -> RunState] : run' = [g EXCEPT ![n] = r] /\ g \in {run, OthersStale(n)}
    BY <1>2, <1>8, <2>2, StaleIsRunState DEF EnqueueInserts, IInv
  <2>5. run'[m].todo = run[m].todo /\ run'[m].advanced = run[m].advanced /\ run'[m].row = run[m].row
    BY <2>1, <2>3, <2>4
  <2> QED
    BY <1>4, <2>5
<1>9. ASSUME NEW n \in Materializers, UpdateAdvances(n)
      PROVE  Held(m)' \subseteq Held(m)
  <2>1. CASE n # m
    BY <1>2, <1>4, <1>9, <2>1 DEF UpdateAdvances
  <2>2. CASE n = m
    <3>1. PICK pc, a : /\ run' = [run EXCEPT ![m] = [run[m] EXCEPT !.pc = pc, !.row = NoOccurrence, !.advanced = a]]
                       /\ a \in {run[m].advanced, run[m].advanced \cup {run[m].row}}
      BY <1>9, <2>2 DEF UpdateAdvances
    <3>2. run'[m].row = NoOccurrence /\ run'[m].todo = run[m].todo /\ run'[m].advanced = a
      BY <1>2, <3>1 DEF RunState
    <3>3. run[m].row # NoOccurrence
      BY <1>9, <2>2 DEF UpdateAdvances, IInv, TypeOK
    <3> QED
      BY <3>1, <3>2, <3>3 DEF Held
  <2> QED
    BY <2>1, <2>2
<1>10. ASSUME NEW n \in Materializers, NEW pc, run' = [run EXCEPT ![n] = [Waiting EXCEPT !.pc = pc]]
       PROVE  Held(m)' \subseteq Held(m)
  <2>1. PICK r : r = [Waiting EXCEPT !.pc = pc]
    OBVIOUS
  <2>2. r.todo = {} /\ r.advanced = {} /\ r.row = NoOccurrence
    BY <1>5, <2>1
  <2>3. run' = [run EXCEPT ![n] = r]
    BY <1>10, <2>1
  <2> QED
    BY <1>2, <1>3, <1>4, <2>2, <2>3
<1>11. ASSUME NEW n \in Materializers, Commit(n) \/ Restart(n)
       PROVE  Held(m)' \subseteq Held(m)
  <2>1. run' = [run EXCEPT ![n] = [Waiting EXCEPT !.pc = "idle"]]
    BY <1>11, IdleIsWaiting DEF Commit, Restart
  <2> QED
    BY <1>10, <2>1
<1>12. ASSUME NEW n \in Materializers, DisplayIdTaken(n) \/ LockTimesOut(n) \/ Crash(n)
       PROVE  Held(m)' \subseteq Held(m)
  BY <1>10, <1>12 DEF DisplayIdTaken, LockTimesOut, Crash, Raises, RollsBack
<1>13. ASSUME NEW s \in Schedules, Edit(s)
       PROVE  Held(m)' \subseteq Held(m)
  <2>1. UNCHANGED run
    BY <1>13 DEF Edit, Create, UpdateSchedule, Delete, SetEnabled, Edits, Writes
  <2> QED
    BY <1>4, <2>1
<1>14. CASE EnqueueOther
  <2>1. run' = OthersStale(None)
    BY <1>14 DEF EnqueueOther
  <2>2. Held(m)' \subseteq Held(m)
    BY <1>4, <2>1, StaleKeepsHeld DEF IInv
  <2> QED
    BY <1>1, <2>2
<1>15. CASE Tick \/ UNCHANGED vars
  BY <1>1, <1>4, <1>15 DEF Tick, vars
<1> QED
  BY <1>1, <1>6, <1>7, <1>8, <1>9, <1>11, <1>12, <1>13, <1>14, <1>15 DEF Next, MaterializeDue

(* Each materializer has each schedule in hand at most once. *)
LEMMA AlwaysHeldOnce == Spec => []HeldOnce
<1>1. Init => HeldOnce
  BY DEF Init, HeldOnce, Held, Waiting
<1> QED
  BY <1>1, HeldOnceStep, AlwaysSound, PTL DEF Spec

(* Division, as the loop that adds intervals needs it. *)
LEMMA QuotientBelow ==
  ASSUME NEW a \in Nat, NEW i \in Nat, i > 0
  PROVE  a \div i \in Nat /\ i * (a \div i) <= a
BY SMT

LEMMA QuotientAbove ==
  ASSUME NEW a \in Nat, NEW i \in Nat, i > 0
  PROVE  a < i * (a \div i) + i
BY SMT

LEMMA MultipleOf ==
  ASSUME NEW q \in Nat, NEW i \in Nat, i > 0
  PROVE  (q + 1) * i = i * q + i /\ ((q + 1) * i) % i = 0
<1>1. \A p \in Nat : (p * i) % i = 0
  OBVIOUS
<1> QED
  BY <1>1

(* The next due time is the first after the present that is a whole number *)
(* of intervals from the one that was due.                                 *)
LEMMA FollowingIsNextMultiple ==
  ASSUME NEW o \in Occurrence, NEW t \in Times, o.at <= t
  PROVE  /\ Following(o, t) > t /\ Following(o, t) <= t + o.interval
         /\ (Following(o, t) - o.at) % o.interval = 0
<1>1. o.at \in Nat /\ t \in Nat /\ t - o.at \in Nat
  BY BoundsAssumption DEF Occurrence, Times
<1>2. o.interval \in Nat /\ o.interval > 0
  <2>1. o.interval \in Intervals
    BY DEF Occurrence
  <2>2. o.interval \in Nat \ {0}
    BY <2>1, IntervalsAssumption
  <2> QED
    BY <2>2
<1>3. PICK q \in Nat : q = (t - o.at) \div o.interval
  BY <1>1, <1>2, QuotientBelow
<1>4. o.interval * q <= t - o.at /\ t - o.at < o.interval * q + o.interval
  BY <1>1, <1>2, <1>3, QuotientBelow, QuotientAbove
<1>5. PICK d \in Nat : d = o.interval * q
  BY <1>2
<1>6. (q + 1) * o.interval = d + o.interval /\ ((q + 1) * o.interval) % o.interval = 0
  BY <1>2, <1>5, MultipleOf
<1>7. Following(o, t) = o.at + (d + o.interval)
  BY <1>3, <1>6 DEF Following
<1>8. Following(o, t) - o.at = d + o.interval
  BY <1>1, <1>2, <1>7
<1> QED
  BY <1>1, <1>2, <1>4, <1>5, <1>6, <1>7, <1>8

(* Whatever was missed shares one job: a commit leaves the schedules it    *)
(* advanced due at the first multiple of their interval that is later than *)
(* the time it was called with, for every interval and every time.         *)
THEOREM MissedOccurrencesAreOne == Spec => MissedOccurrencesShareOneJob
<1> DEFINE A == \A m \in Materializers, o \in Occurrence :
                    Commits(m) /\ o \in run[m].advanced =>
                        /\ schedule'[o.of].next > run[m].now
                        /\ schedule'[o.of].next <= run[m].now + o.interval
                        /\ (schedule'[o.of].next - o.at) % o.interval = 0
<1>1. ASSUME IInv, HeldOnce, [Next]_vars PROVE A
  <2> SUFFICES ASSUME NEW m \in Materializers, NEW o \in Occurrence, Commits(m), o \in run[m].advanced
               PROVE  /\ schedule'[o.of].next > run[m].now
                      /\ schedule'[o.of].next <= run[m].now + o.interval
                      /\ (schedule'[o.of].next - o.at) % o.interval = 0
    OBVIOUS
  <2>1. /\ lock = m /\ m # None /\ run[m].pc = "commit" /\ run'[m].pc = "idle" /\ Sound(m)
        /\ run[m] \in RunState /\ o.of \in Schedules /\ lock' = None
    BY <1>1, NoneAssumption DEF Commits, IInv, Sound, TypeOK, Occurrence
  <2>2. ASSUME Commit(m)
        PROVE  schedule'[o.of].next = Following(o, run[m].now)
    <3>1. (CHOOSE p \in run[m].advanced : p.of = o.of) = o
      BY <1>1 DEF HeldOnce, Held
    <3>2. schedule'[o.of] = [schedule[o.of] EXCEPT !.next = Following(o, run[m].now)]
      BY <2>1, <2>2, <3>1 DEF Commit
    <3>3. schedule[o.of] \in ScheduleRow
      BY <1>1, <2>1 DEF IInv, TypeOK
    <3> QED
      BY <3>2, <3>3 DEF ScheduleRow
  <2>3. o.at <= run[m].now /\ run[m].now \in Times
    BY <2>1 DEF Sound, RunState
  <2>4. Commit(m)
    <3>1. ASSUME NEW n \in Materializers, n # m, Commit(n) PROVE FALSE
      BY <1>1, <2>1, <3>1 DEF Commit, IInv, Sound
    <3>2. ASSUME NEW n \in Materializers,
                 \/ SelectDue(n) \/ EnqueueReads(n) \/ EnqueueInserts(n) \/ UpdateAdvances(n) \/ Restart(n)
          PROVE  FALSE
      BY <2>1, <3>2 DEF SelectDue, EnqueueReads, EnqueueInserts, UpdateAdvances, Restart
    <3>3. ASSUME NEW n \in Materializers, DisplayIdTaken(n) \/ LockTimesOut(n) \/ Crash(n)
          PROVE  FALSE
      <4>1. n = m
        BY <2>1, <3>3 DEF DisplayIdTaken, LockTimesOut, Crash, Raises, RollsBack
      <4>2. run'[m] = [Waiting EXCEPT !.pc = "crashed"] /\ Crash(m)
        BY <1>1, <2>1, <3>3, <4>1 DEF DisplayIdTaken, LockTimesOut, Crash, RollsBack, IInv, TypeOK
      <4>3. run'[m].pc = "crashed"
        BY <4>2, WaitingIsRunState DEF PCs
      <4> QED
        BY <2>1, <4>3
    <3>4. ASSUME NEW s \in Schedules, Edit(s) PROVE FALSE
      BY <2>1, <3>4 DEF Edit, Create, UpdateSchedule, Delete, SetEnabled, Edits, Writes
    <3>5. EnqueueOther \/ Tick \/ UNCHANGED vars => FALSE
      BY <2>1 DEF EnqueueOther, Tick, vars
    <3> QED
      BY <1>1, <3>1, <3>2, <3>3, <3>4, <3>5 DEF Next, MaterializeDue
  <2> QED
    BY <2>2, <2>3, <2>4, FollowingIsNextMultiple
<1>2. IInv /\ HeldOnce /\ [Next]_vars => [A]_vars
  BY <1>1
<1> QED
  BY <1>2, AlwaysSound, AlwaysHeldOnce, PTL DEF Spec, MissedOccurrencesShareOneJob

===============================================================================
