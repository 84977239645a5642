------------------------------- MODULE ActiveRun -------------------------------
(***************************************************************************)
(* ActiveSecurityScanRunner.run: it selects payloads of the test library,  *)
(* sends them to the target one after the other, a control in front of the *)
(* first payload of every case that has one, judges the answers and        *)
(* reports.  Another task may call cancel() at every await; the awaits are *)
(* the calls of the event sink, whose exceptions are swallowed, and those  *)
(* of the adapter.                                                         *)
(*                                                                         *)
(* The plan's filters by id, category and tag are the cases it wants.      *)
(* A case is its place in the library, a payload its place in the case;    *)
(* both are sorted by id.  Payload 0 is the control.                       *)
(***************************************************************************)
EXTENDS Target, Sequences

CONSTANTS
    Languages,       \* of payloads
    Library,         \* the test cases
    Capabilities,    \* what the target's descriptor declares
    Plans            \* the scan plans to consider

Payloads == [safe: BOOLEAN, canary: BOOLEAN, language: Languages, renders: BOOLEAN]

Cases == [enabled: BOOLEAN, retrieval: BOOLEAN, tools: BOOLEAN,
          destructive: BOOLEAN, safeDefault: BOOLEAN, critical: BOOLEAN,
          controlled: BOOLEAN, control: Payloads, payloads: Seq(Payloads)]

SafetyModes == {"safe", "controlled", "destructive"}

ASSUME LibraryAssumption ==
    /\ Library \in Seq(Cases)
    /\ \A i \in DOMAIN Library : Library[i].safeDefault =>
           /\ ~Library[i].destructive
           /\ \A j \in DOMAIN Library[i].payloads : Library[i].payloads[j].safe

ASSUME PlansAssumption ==
    /\ Plans \subseteq [mode: SafetyModes, production: BOOLEAN, runControls: BOOLEAN,
                        wanted: SUBSET DOMAIN Library, languages: SUBSET Languages,
                        requests: Nat \ {0}, failures: Nat \ {0}, duration: Nat \ {0},
                        keepAmbiguous: BOOLEAN, stopOnCritical: BOOLEAN]
    /\ Capabilities \subseteq {"retrieval", "tools", "safe", "destructive"}

VARIABLES
    plan,            \* the ActiveScanPlan
    pc,              \* where run is
    cancelled,       \* _cancelled of the runner
    elapsed,         \* time since the start
    todo,            \* selected payloads the loop has not reached
    item,            \* the payload in hand
    kind,            \* what _execute was called for
    outcome,         \* what _execute is about to return
    controls,        \* control_observations
    requests,        \* requests_used, and scan.requests_sent
    failures,        \* failures
    warned,          \* warnings is not empty
    executions,      \* the executions, in order
    findings,        \* payloads with a finding
    status           \* the scan's status

cursor == <<todo, item, kind, outcome>>
books == <<controls, requests, executions, findings>>
runVars == <<plan, pc, cancelled, elapsed, cursor, books, failures, warned, status>>
vars == <<targetVars, runVars>>

-------------------------------------------------------------------------------
(* Selection. *)

Available(case) ==
    /\ case.retrieval => "retrieval" \in Capabilities
    /\ case.tools => "tools" \in Capabilities
    /\ case.destructive => plan.mode = "destructive"

(* An empty set of languages means any.  Tags select in the same way.     *)
Variants(case) == {j \in DOMAIN case.payloads :
    /\ plan.languages = {} \/ case.payloads[j].language \in plan.languages
    /\ plan.mode = "safe" => case.payloads[j].safe}

Chosen(i) == Library[i].enabled /\ i \in plan.wanted /\ Available(Library[i])

Selected == UNION {{[case |-> i, payload |-> j] : j \in Variants(Library[i])} :
                   i \in {k \in DOMAIN Library : Chosen(k)}}

(* Cases with a warning.  One that the plan's filters leave out has none,  *)
(* unless it is disabled.                                                  *)
Skipped == {i \in DOMAIN Library :
    \/ ~Library[i].enabled
    \/ i \in plan.wanted /\ (~Available(Library[i]) \/ Variants(Library[i]) = {})}

NoItem == [case |-> 0, payload |-> 0]

First(m) == \A o \in todo :
    m.case < o.case \/ (m.case = o.case /\ m.payload <= o.payload)

Case == Library[item.case]

Controlled(i) == plan.runControls /\ Library[i].controlled

(* requests_planned. *)
Planned == Cardinality(Selected) + Cardinality({m.case : m \in {o \in Selected : Controlled(o.case)}})

-------------------------------------------------------------------------------
(* The checks of the loop. *)

OutOfTime == elapsed >= plan.duration

TooManyFailures == failures >= plan.failures

(* Mutant of OutOfRequests: off by one. *)
OutOfRequests_Late == requests > plan.requests

OutOfRequests == requests >= plan.requests

(* The invocation in flight: a control or the payload in hand. *)
Invocation == [case |-> item.case, payload |-> IF kind = "control" THEN 0 ELSE item.payload]

Payload == IF kind = "control" THEN Case.control ELSE Case.payloads[item.payload]

(* _current_invocation_id is set from the preparation to the end of        *)
(* _execute.                                                               *)
Current == IF pc \in {"flight", "report"} THEN {issued} ELSE {}

(* Leaves the loop, with a warning or without. *)
LeavesLoop(warning) ==
    /\ pc' = "finish"
    /\ warned' = (warned \/ warning)
    /\ UNCHANGED <<targetVars, plan, cancelled, elapsed, cursor, books, failures, status>>

(* _render raised. *)
CountsFailure == failures' = failures + 1 /\ warned' = TRUE

-------------------------------------------------------------------------------
(* Up to the loop. *)

Admissible ==
    /\ authorized
    /\ plan.mode \in {"safe", "destructive"} => plan.mode \in Capabilities
    /\ plan.production => plan.mode = "safe"

(* ValueError: the run ends before its first event. *)
Rejects ==
    /\ pc = "idle" /\ ~Admissible
    /\ pc' = "rejected"
    /\ UNCHANGED <<targetVars, plan, cancelled, elapsed, cursor, books, failures, warned, status>>

Starts ==
    /\ pc = "idle" /\ Admissible
    /\ pc' = "select"
    /\ status' = "running"
    /\ UNCHANGED <<targetVars, plan, cancelled, elapsed, cursor, books, failures, warned>>

Selects ==
    /\ pc = "select"
    /\ todo' = Selected
    /\ warned' = (Skipped # {})
    /\ pc' = "loop"
    /\ UNCHANGED <<targetVars, plan, cancelled, elapsed, item, kind, outcome, books,
                   failures, status>>

-------------------------------------------------------------------------------
(* The loop. *)

LoopEnds ==
    /\ pc = "loop"
    /\ \/ todo = {} /\ LeavesLoop(FALSE)
       \/ todo # {} /\ cancelled /\ LeavesLoop(FALSE)
       \/ todo # {} /\ ~cancelled /\ OutOfTime /\ LeavesLoop(TRUE)

TakesPayload ==
    /\ pc = "loop" /\ ~cancelled /\ ~OutOfTime
    /\ \E m \in todo : First(m) /\ item' = m /\ todo' = todo \ {m}
    /\ pc' = "control"
    /\ UNCHANGED <<targetVars, plan, cancelled, elapsed, kind, outcome, books,
                   failures, warned, status>>

(* Mutant of NeedsControl: a control per payload. *)
NeedsControl_Always == Controlled(item.case)

NeedsControl == Controlled(item.case) /\ controls[item.case] = "none"

WithoutControl ==
    /\ pc = "control" /\ ~NeedsControl
    /\ pc' = "gate"
    /\ UNCHANGED <<targetVars, plan, cancelled, elapsed, cursor, books, failures, warned, status>>

ControlTooDear ==
    /\ pc = "control" /\ NeedsControl /\ OutOfRequests
    /\ LeavesLoop(TRUE)

ControlUnrendered ==
    /\ pc = "control" /\ NeedsControl /\ ~OutOfRequests
    /\ ~Case.control.renders
    /\ CountsFailure
    /\ controls' = [controls EXCEPT ![item.case] = "missing"]
    /\ pc' = "gate"
    /\ UNCHANGED <<targetVars, plan, cancelled, elapsed, cursor, requests, executions,
                   findings, status>>

StartsControl ==
    /\ pc = "control" /\ NeedsControl /\ ~OutOfRequests
    /\ Case.control.renders
    /\ kind' = "control"
    /\ pc' = "prepare"
    /\ UNCHANGED <<targetVars, plan, cancelled, elapsed, todo, item, outcome, books,
                   failures, warned, status>>

(* The checks in front of an attack; a failed control comes here too. *)
GateCloses ==
    /\ pc = "gate"
    /\ \/ TooManyFailures /\ LeavesLoop(TRUE)
       \/ ~TooManyFailures /\ cancelled /\ LeavesLoop(FALSE)
       \/ ~TooManyFailures /\ ~cancelled /\ (OutOfRequests \/ OutOfTime) /\ LeavesLoop(TRUE)

GateOpen == pc = "gate" /\ ~TooManyFailures /\ ~cancelled /\ ~OutOfRequests /\ ~OutOfTime

AttackUnrendered ==
    /\ GateOpen
    /\ ~Case.payloads[item.payload].renders
    /\ CountsFailure
    /\ pc' = "unrendered"
    /\ UNCHANGED <<targetVars, plan, cancelled, elapsed, cursor, books, status>>

AfterUnrendered ==
    /\ pc = "unrendered"
    /\ \/ TooManyFailures /\ LeavesLoop(TRUE)
       \/ ~TooManyFailures /\ pc' = "loop"
          /\ UNCHANGED <<targetVars, plan, cancelled, elapsed, cursor, books, failures,
                         warned, status>>

StartsAttack ==
    /\ GateOpen
    /\ Case.payloads[item.payload].renders
    /\ kind' = "attack"
    /\ pc' = "prepare"
    /\ UNCHANGED <<targetVars, plan, cancelled, elapsed, todo, item, outcome, books,
                   failures, warned, status>>

-------------------------------------------------------------------------------
(* _execute. *)

Failure == [ok |-> FALSE, verdict |-> "none"]

Verdicts == {"confirmed", "probable", "ambiguous", "not_detected", "inconclusive"}

Fails == pc' = "book" /\ outcome' = Failure

(* The adapter refuses the invocation, or cannot render its body. *)
PrepareFails ==
    /\ pc = "prepare"
    /\ Fails
    /\ UNCHANGED <<targetVars, plan, cancelled, elapsed, todo, item, kind, books, failures,
                   warned, status>>

(* Mutant of Prepares: it does not look at the flag again. *)
Prepares_Blindly ==
    /\ pc = "prepare" /\ ~Refused(Case, Payload, plan.mode)
    /\ Admit(FALSE)
    /\ pc' = "flight"
    /\ UNCHANGED <<plan, cancelled, elapsed, cursor, books, failures, warned, status>>

Prepares ==
    /\ pc = "prepare" /\ ~Refused(Case, Payload, plan.mode)
    /\ Admit(cancelled)
    /\ pc' = "flight"
    /\ UNCHANGED <<plan, cancelled, elapsed, cursor, books, failures, warned, status>>

Flies ==
    /\ pc = "flight"
    /\ TargetStep(Invocation)
    /\ UNCHANGED runVars

FlightFails ==
    /\ pc = "flight" /\ phase = "failed"
    /\ Fails
    /\ Collected
    /\ UNCHANGED <<plan, cancelled, elapsed, todo, item, kind, books, failures,
                   warned, status>>

(* The evaluator judges an attack, and may raise. *)
Judges ==
    /\ pc = "flight" /\ phase = "answered"
    /\ \/ /\ pc' = "report"
          /\ \E verdict \in IF kind = "control" THEN {"none"} ELSE Verdicts :
                 outcome' = [ok |-> TRUE, verdict |-> verdict]
       \/ kind = "attack" /\ Fails
    /\ Collected
    /\ UNCHANGED <<plan, cancelled, elapsed, todo, item, kind, books, failures,
                   warned, status>>

-------------------------------------------------------------------------------
(* Back in the loop. *)

Execution == [case |-> Invocation.case, payload |-> Invocation.payload, ok |-> outcome.ok,
              compared |-> kind = "attack" /\ controls[item.case] = "observed"]

Finding ==
    \/ outcome.verdict \in {"confirmed", "probable"}
    \/ outcome.verdict = "ambiguous" /\ plan.keepAmbiguous

StopsHere == Finding /\ plan.stopOnCritical /\ Case.critical

(* Mutant of Books: failed executions are not counted. *)
Books_Successes ==
    /\ pc \in {"report", "book"}
    /\ executions' = Append(executions, Execution)
    /\ requests' = IF outcome.ok THEN requests + 1 ELSE requests
    /\ failures' = IF outcome.ok THEN failures ELSE failures + 1
    /\ warned' = (warned \/ ~outcome.ok \/ StopsHere)
    /\ findings' = IF Finding THEN findings \cup {item} ELSE findings
    /\ controls' = IF kind = "attack" THEN controls
                   ELSE [controls EXCEPT ![item.case] = IF outcome.ok THEN "observed" ELSE "missing"]
    /\ pc' = IF kind = "control" THEN "gate" ELSE IF StopsHere THEN "finish" ELSE "tail"
    /\ outcome' = Failure
    /\ UNCHANGED <<targetVars, plan, cancelled, elapsed, todo, item, kind, status>>

Books ==
    /\ pc \in {"report", "book"}
    /\ executions' = Append(executions, Execution)
    /\ requests' = requests + 1
    /\ failures' = IF outcome.ok THEN failures ELSE failures + 1
    /\ warned' = (warned \/ ~outcome.ok \/ StopsHere)
    /\ findings' = IF Finding THEN findings \cup {item} ELSE findings
    /\ controls' = IF kind = "attack" THEN controls
                   ELSE [controls EXCEPT ![item.case] = IF outcome.ok THEN "observed" ELSE "missing"]
    /\ pc' = IF kind = "control" THEN "gate" ELSE IF StopsHere THEN "finish" ELSE "tail"
    /\ outcome' = Failure
    /\ UNCHANGED <<targetVars, plan, cancelled, elapsed, todo, item, kind, status>>

AfterAttack ==
    /\ pc = "tail"
    /\ \/ (OutOfTime \/ TooManyFailures) /\ LeavesLoop(TRUE)
       \/ ~OutOfTime /\ ~TooManyFailures /\ pc' = "loop"
          /\ UNCHANGED <<targetVars, plan, cancelled, elapsed, cursor, books, failures,
                         warned, status>>

AllFailed == executions # <<>> /\ \A n \in DOMAIN executions : ~executions[n].ok

(* Mutant of FinalStatus: a run without findings or failures is complete. *)
FinalStatus_Optimistic ==
    IF cancelled THEN "cancelled"
    ELSE IF AllFailed THEN "failed"
    ELSE IF failures > 0 THEN "completed_with_warnings"
    ELSE "completed"

(* The list of errors stays empty. *)
FinalStatus ==
    IF cancelled THEN "cancelled"
    ELSE IF AllFailed THEN "failed"
    ELSE IF warned \/ failures > 0 THEN "completed_with_warnings"
    ELSE "completed"

Finishes ==
    /\ pc = "finish"
    /\ status' = FinalStatus
    /\ pc' = "done"
    /\ UNCHANGED <<targetVars, plan, cancelled, elapsed, cursor, books, failures, warned>>

-------------------------------------------------------------------------------
(* Around the run. *)

(* A cancellation of the last invocation may still be under way. *)
Cancels ==
    /\ pc # "rejected"
    /\ cancelled' = TRUE
    /\ Revoke(Current)
    /\ UNCHANGED <<plan, pc, elapsed, cursor, books, failures, warned, status>>

(* Time beyond the budget makes no difference. *)
Tick ==
    /\ pc \notin {"idle", "rejected", "done"} /\ ~OutOfTime
    /\ elapsed' = elapsed + 1
    /\ UNCHANGED <<targetVars, plan, pc, cancelled, cursor, books, failures, warned, status>>

AuthorizationExpires == Expires /\ UNCHANGED runVars

Runs ==
    \/ Rejects \/ Starts \/ Selects \/ LoopEnds \/ TakesPayload
    \/ WithoutControl \/ ControlTooDear \/ ControlUnrendered \/ StartsControl
    \/ GateCloses \/ AttackUnrendered \/ AfterUnrendered \/ StartsAttack
    \/ PrepareFails \/ Prepares \/ Flies \/ FlightFails \/ Judges
    \/ Books \/ AfterAttack \/ Finishes

Init ==
    /\ TargetInit
    /\ plan \in Plans
    /\ pc = "idle" /\ cancelled = FALSE /\ elapsed = 0
    /\ todo = {} /\ item = NoItem /\ kind = "control" /\ outcome = Failure
    /\ controls = [i \in DOMAIN Library |-> "none"]
    /\ requests = 0 /\ failures = 0 /\ warned = FALSE
    /\ executions = <<>> /\ findings = {}
    /\ status = "pending"

Next == Runs \/ Cancels \/ Tick \/ AuthorizationExpires

Spec == Init /\ [][Next]_vars

(* Event sinks return and an invocation ends with its timeout at the       *)
(* latest, so a run always has a next step and takes it.                   *)
FairSpec == Spec /\ WF_vars(Runs)
-------------------------------------------------------------------------------
(* Properties. *)

Kinds == {"control", "attack"}

Items == [case: DOMAIN Library, payload: Nat]

Executions == [case: DOMAIN Library, payload: Nat, ok: BOOLEAN, compared: BOOLEAN]

Requests == [id: Nat \ {0}, case: DOMAIN Library, payload: Nat, hop: 0..MaxRedirects]

RunTypeOK ==
    /\ plan \in Plans
    /\ pc \in {"idle", "rejected", "select", "loop", "control", "gate", "unrendered",
               "prepare", "flight", "report", "book", "tail", "finish", "done"}
    /\ cancelled \in BOOLEAN /\ elapsed \in 0..plan.duration
    /\ todo \subseteq Selected
    /\ item \in Items \cup {NoItem} /\ kind \in Kinds
    /\ outcome \in [ok: BOOLEAN, verdict: Verdicts \cup {"none"}]
    /\ controls \in [DOMAIN Library -> {"none", "observed", "missing"}]
    /\ requests \in Nat /\ failures \in Nat /\ warned \in BOOLEAN
    /\ executions \in Seq(Executions)
    /\ findings \subseteq Items
    /\ status \in {"pending", "running", "completed", "completed_with_warnings",
                   "failed", "cancelled"}

(* Types; redirects stay within their limit. *)
TypeOK == TargetTypeOK /\ sent \subseteq Requests /\ RunTypeOK

Ids == {r.id : r \in sent}

(* The plan's budgets hold for the target too: it never sees more          *)
(* invocations than the plan pays for, however they end, nor one once      *)
(* the tolerated failures have been used up.                               *)
PlanBudgets ==
    /\ requests <= plan.requests
    /\ Cardinality(Ids) <= plan.requests
    /\ failures <= plan.failures

(* The runner's books and the adapter's agree: an execution that completed *)
(* was charged, a charged or failed one was sent or at least issued, and   *)
(* the adapter's budget is never overdrawn.                                *)
BooksAgree ==
    LET completed == Cardinality({n \in DOMAIN executions : executions[n].ok})
    IN  /\ completed <= used
        /\ used <= Cardinality(Ids)
        /\ used <= MaxRequests
        /\ failed <= MaxFailures
        /\ used + failed <= issued
        /\ issued <= requests + 1
        /\ requests <= Planned

(* After cancel() nothing more goes out: not the invocation that is being  *)
(* prepared, not a redirect of the one in flight, not the next payload.    *)
CancelledIsSilent == [][cancelled => sent' = sent]_vars

(* A case's control runs once, before its attacks, and an attack is        *)
(* compared with it exactly when it was observed.                          *)
ControlsFirst ==
    \A n \in DOMAIN executions :
        LET e == executions[n]
            earlier == {k \in 1..(n - 1) : executions[k].case = e.case}
            control == {k \in earlier : executions[k].payload = 0}
        IN  /\ e.payload = 0 => earlier = {}
            /\ e.payload # 0 =>
                   /\ e.compared <=> \E k \in control : executions[k].ok
                   /\ Controlled(e.case) /\ Library[e.case].control.renders => control # {}

(* In safe mode nothing goes out that is not marked safe for production:   *)
(* no destructive case, no unsafe payload, not even as a control, and no   *)
(* tool use but with canaries.                                             *)
SafeModeIsSafe ==
    plan.mode = "safe" => \A r \in sent :
        LET case == Library[r.case]
            payload == IF r.payload = 0 THEN case.control ELSE case.payloads[r.payload]
        IN  payload.safe /\ case.safeDefault /\ (case.tools => payload.canary)

Completed(c, p) == \E n \in DOMAIN executions :
    executions[n].case = c /\ executions[n].payload = p /\ executions[n].ok

(* A run without warnings did all of its work: no case was skipped, every  *)
(* selected payload was answered and judged, every control too.  A failed  *)
(* one has no findings to show.                                            *)
StatusIsHonest ==
    /\ status = "completed" =>
           /\ Skipped = {} /\ failures = 0
           /\ \A m \in Selected : Completed(m.case, m.payload)
           /\ \A m \in Selected : Controlled(m.case) => Completed(m.case, 0)
    /\ status = "failed" => findings = {} /\ failures > 0

(* Every run ends: in its result, or rejected before the first request.    *)
RunEnds == pc = "select" ~> pc = "done"
===============================================================================
