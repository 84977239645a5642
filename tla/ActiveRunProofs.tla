---------------------------- MODULE ActiveRunProofs ----------------------------
(***************************************************************************)
(* Proofs about ActiveRun, for every library, every set of plans, every    *)
(* set of capabilities and every budget of the target.  All of them rest   *)
(* on one inductive invariant: what a place in the run says of the item    *)
(* in hand, of what is left of the plan's budgets and of the invocation.   *)
(* On top of it come three more: what the runner knows of controls, what   *)
(* it has done so far, and what the two books say of each other.           *)
(***************************************************************************)
EXTENDS ActiveRun, FiniteSetTheorems, TLAPS

(* Where the loop has a payload in hand. *)
Handling == {"control", "gate", "unrendered", "prepare", "flight", "report", "book", "tail"}

(* Where an invocation has been paid for and not been booked. *)
Executing == {"prepare", "flight", "report", "book"}

ItemInHand == pc \in Handling => item \in Selected

(* A payload is prepared only when the plan pays for one more request and  *)
(* tolerates one more failure.                                             *)
RequestsLeft ==
    /\ requests <= plan.requests
    /\ pc \in Executing => requests < plan.requests

FailuresLeft ==
    /\ failures <= plan.failures
    /\ pc \in Executing \cup {"idle", "select", "loop", "control"} => failures < plan.failures

(* At most the invocation in flight has not been booked. *)
InvocationsBooked ==
    /\ issued <= requests + 1
    /\ pc \notin {"flight", "report", "book"} => issued <= requests

(* Hence what went out belongs to a booked request or to the one in        *)
(* flight.                                                                 *)
SentWasIssued == \A r \in sent : r.id <= issued

(* The invocation in flight has an id.                                     *)
InFlightIssued == pc \in {"flight", "report"} => issued \in Nat \ {0}

(* A task is registered with the adapter only while the runner knows its   *)
(* invocation.                                                             *)
OnlyInFlight == phase \in {"sending", "waiting"} => pc = "flight"

(* A cancelled run has no invocation under way that is not about to be     *)
(* interrupted.                                                            *)
CancelReaches == cancelled /\ phase \in {"sending", "waiting"} => interrupted

(* What is in flight is what the adapter has checked.                      *)
InFlightAllowed == pc = "flight" => ~Blocked(Case, Payload, plan.mode)

IInv ==
    /\ TypeOK /\ ItemInHand
    /\ RequestsLeft /\ FailuresLeft /\ InvocationsBooked /\ SentWasIssued
    /\ InFlightIssued /\ OnlyInFlight /\ CancelReaches
    /\ InFlightAllowed /\ SafeModeIsSafe

-------------------------------------------------------------------------------
(* What is selected is in the library. *)
LEMMA SelectedInLibrary ==
    ASSUME NEW m \in Selected
    PROVE  /\ m \in Items
           /\ m.case \in DOMAIN Library
           /\ m.payload \in DOMAIN Library[m.case].payloads
           /\ m.payload \in Nat \ {0}
<1>1. PICK i \in DOMAIN Library : \E k \in Variants(Library[i]) : m = [case |-> i, payload |-> k]
  BY DEF Selected
<1> PICK j \in Variants(Library[i]) : m = [case |-> i, payload |-> j]
  BY <1>1
<1>2. j \in DOMAIN Library[i].payloads
  BY DEF Variants
<1>3. Library[i].payloads \in Seq(Payloads)
  <2>1. Library[i] \in Cases
    BY LibraryAssumption
  <2> QED BY <2>1 DEF Cases
<1>4. DOMAIN Library[i].payloads = 1..Len(Library[i].payloads)
  BY <1>3
<1>5. j \in Nat \ {0}
  BY <1>2, <1>3, <1>4
<1> QED BY <1>2, <1>5 DEF Items

LEMMA SelectionFixed ==
    ASSUME plan' = plan
    PROVE  Selected' = Selected
BY DEF Selected, Chosen, Available, Variants

LEMMA PlanTypes ==
    ASSUME TypeOK
    PROVE  plan.requests \in Nat \ {0} /\ plan.failures \in Nat \ {0} /\ plan.duration \in Nat \ {0}
BY PlansAssumption DEF TypeOK, RunTypeOK

(* A step of the runner outside of an invocation leaves the target alone.  *)
LEMMA TargetAlone ==
    ASSUME IInv, UNCHANGED <<targetVars, plan, cancelled>>,
           pc # "flight", pc' \notin {"flight", "report"}
    PROVE  /\ TargetTypeOK' /\ sent' \subseteq Requests
           /\ SentWasIssued' /\ InFlightIssued' /\ OnlyInFlight' /\ CancelReaches'
           /\ InFlightAllowed' /\ SafeModeIsSafe'
<1>1. UNCHANGED <<authorized, used, failed, issued, dropped, phase, hops, interrupted, sent>>
  BY DEF targetVars, flightVars
<1>2. TargetTypeOK' /\ sent' \subseteq Requests
  BY <1>1 DEF IInv, TypeOK, TargetTypeOK
<1>3. SentWasIssued' /\ InFlightIssued' /\ OnlyInFlight' /\ CancelReaches' /\ InFlightAllowed'
  BY <1>1 DEF IInv, SentWasIssued, InFlightIssued, OnlyInFlight, CancelReaches, InFlightAllowed
<1>4. SafeModeIsSafe'
  BY <1>1 DEF IInv, SafeModeIsSafe
<1> QED BY <1>2, <1>3, <1>4

(* A step that also books nothing: all that matters is where it goes.      *)
LEMMA RunnerMoves ==
    ASSUME IInv,
           UNCHANGED <<targetVars, plan, cancelled, elapsed, books, failures>>,
           pc \notin {"flight", "report", "book"},
           pc' \in {"select", "loop", "control", "gate", "prepare", "book", "finish", "done",
                    "rejected"},
           todo' \subseteq Selected, item' \in Items \cup {NoItem}, kind' \in Kinds,
           outcome' \in [ok: BOOLEAN, verdict: Verdicts \cup {"none"}],
           warned' \in BOOLEAN,
           status' \in {"pending", "running", "completed", "completed_with_warnings",
                        "failed", "cancelled"},
           pc' \in Handling => item' \in Selected,
           pc' \in Executing => requests < plan.requests,
           pc' \in Executing \cup {"select", "loop", "control"} => failures < plan.failures
    PROVE  IInv'
<1>1. Selected' = Selected
  BY SelectionFixed
<1>2. UNCHANGED <<controls, requests, executions, findings, issued>>
  BY DEF books, targetVars
<1>3. RunTypeOK'
  BY <1>1, <1>2 DEF IInv, TypeOK, RunTypeOK
<1>4. ItemInHand'
  BY <1>1 DEF ItemInHand
<1>5. RequestsLeft' /\ FailuresLeft'
  BY <1>2 DEF IInv, RequestsLeft, FailuresLeft
<1>6. InvocationsBooked'
  BY <1>2 DEF IInv, InvocationsBooked, TypeOK, TargetTypeOK, RunTypeOK
<1> QED BY <1>3, <1>4, <1>5, <1>6, TargetAlone DEF IInv, TypeOK

-------------------------------------------------------------------------------
(* The initial states satisfy the invariant. *)
LEMMA InitInvariant == Init => IInv
<1> SUFFICES ASSUME Init PROVE IInv
  OBVIOUS
<1> USE DEF Init, TargetInit
<1>1. TargetTypeOK /\ sent \subseteq Requests
  <2>1. 0 \in 0..MaxRedirects
    BY BudgetAssumption
  <2> QED BY <2>1 DEF TargetTypeOK
<1>2. RunTypeOK
  <2>1. plan.duration \in Nat
    BY PlansAssumption
  <2>2. elapsed \in 0..plan.duration
    BY <2>1
  <2>3. outcome \in [ok: BOOLEAN, verdict: Verdicts \cup {"none"}]
    BY DEF Failure
  <2>4. controls \in [DOMAIN Library -> {"none", "observed", "missing"}]
    OBVIOUS
  <2>5. executions \in Seq(Executions)
    OBVIOUS
  <2> QED BY <2>2, <2>3, <2>4, <2>5 DEF RunTypeOK, Kinds
<1>3. plan.requests \in Nat \ {0} /\ plan.failures \in Nat \ {0}
  BY PlansAssumption
<1>4. ItemInHand /\ InFlightIssued /\ OnlyInFlight /\ CancelReaches /\ InFlightAllowed
  BY DEF ItemInHand, Handling, InFlightIssued, OnlyInFlight, CancelReaches, InFlightAllowed
<1>5. RequestsLeft /\ FailuresLeft /\ InvocationsBooked
  BY <1>3 DEF RequestsLeft, FailuresLeft, InvocationsBooked, Executing
<1>6. SentWasIssued /\ SafeModeIsSafe
  BY DEF SentWasIssued, SafeModeIsSafe
<1> QED BY <1>1, <1>2, <1>4, <1>5, <1>6 DEF IInv, TypeOK

-------------------------------------------------------------------------------
(* The steps of the runner that only move on. *)

LEMMA BeginStep ==
    ASSUME IInv, Rejects \/ Starts \/ Selects
    PROVE  IInv'
<1>1. CASE Rejects
  BY <1>1, RunnerMoves DEF Rejects, IInv, TypeOK, RunTypeOK, cursor, Handling, Executing
<1>2. CASE Starts
  BY <1>2, RunnerMoves DEF Starts, IInv, TypeOK, RunTypeOK, cursor, Handling, Executing,
     FailuresLeft
<1>3. CASE Selects
  BY <1>3, RunnerMoves DEF Selects, IInv, TypeOK, RunTypeOK, Handling, Executing, FailuresLeft
<1> QED BY <1>1, <1>2, <1>3

(* From anywhere in the loop but an invocation it can be left. *)
LEMMA LeavesLoopStep ==
    ASSUME IInv, NEW w \in BOOLEAN, LeavesLoop(w), pc \notin {"flight", "report", "book"}
    PROVE  IInv'
BY RunnerMoves DEF LeavesLoop, IInv, TypeOK, RunTypeOK, cursor, Handling, Executing

LEMMA LoopStep ==
    ASSUME IInv, LoopEnds \/ TakesPayload
    PROVE  IInv'
<1>1. CASE LoopEnds
  BY <1>1, LeavesLoopStep DEF LoopEnds
<1>2. CASE TakesPayload
  <2>1. PICK m \in todo : item' = m /\ todo' = todo \ {m}
    BY <1>2 DEF TakesPayload
  <2>2. m \in Selected /\ m \in Items
    BY SelectedInLibrary DEF IInv, TypeOK, RunTypeOK
  <2> QED BY <1>2, <2>1, <2>2, RunnerMoves
          DEF TakesPayload, IInv, TypeOK, RunTypeOK, Handling, Executing, FailuresLeft
<1> QED BY <1>1, <1>2

LEMMA ControlStep ==
    ASSUME IInv, WithoutControl \/ ControlTooDear \/ StartsControl
    PROVE  IInv'
<1>1. CASE WithoutControl
  BY <1>1, RunnerMoves
  DEF WithoutControl, IInv, TypeOK, RunTypeOK, cursor, Handling, Executing, ItemInHand
<1>2. CASE ControlTooDear
  BY <1>2, LeavesLoopStep DEF ControlTooDear
<1>3. CASE StartsControl
  <2>1. requests < plan.requests /\ failures < plan.failures
    BY <1>3, PlanTypes
    DEF StartsControl, OutOfRequests, IInv, TypeOK, RunTypeOK, FailuresLeft
  <2> QED BY <1>3, <2>1, RunnerMoves
          DEF StartsControl, IInv, TypeOK, RunTypeOK, Handling, ItemInHand, Kinds
<1> QED BY <1>1, <1>2, <1>3

LEMMA GateStep ==
    ASSUME IInv, GateCloses \/ StartsAttack
    PROVE  IInv'
<1>1. CASE GateCloses
  BY <1>1, LeavesLoopStep DEF GateCloses
<1>2. CASE StartsAttack
  <2>1. requests < plan.requests /\ failures < plan.failures
    BY <1>2, PlanTypes
    DEF StartsAttack, GateOpen, OutOfRequests, TooManyFailures, IInv, TypeOK, RunTypeOK
  <2> QED BY <1>2, <2>1, RunnerMoves
          DEF StartsAttack, GateOpen, IInv, TypeOK, RunTypeOK, Handling, ItemInHand, Kinds
<1> QED BY <1>1, <1>2

(* The next payload, or the end of the loop. *)
LEMMA NextPayloadStep ==
    ASSUME IInv, AfterUnrendered \/ AfterAttack
    PROVE  IInv'
<1>1. CASE pc' = "finish"
  BY <1>1, LeavesLoopStep DEF AfterUnrendered, AfterAttack
<1>2. CASE pc' # "finish"
  <2>1. /\ ~TooManyFailures /\ pc' = "loop" /\ pc \in {"unrendered", "tail"}
        /\ UNCHANGED <<targetVars, plan, cancelled, elapsed, cursor, books, failures,
                       warned, status>>
    BY <1>2 DEF AfterUnrendered, AfterAttack, LeavesLoop
  <2>2. failures < plan.failures
    BY <2>1, PlanTypes DEF TooManyFailures, IInv, TypeOK, RunTypeOK
  <2> QED BY <2>1, <2>2, RunnerMoves
          DEF IInv, TypeOK, RunTypeOK, cursor, Handling, Executing
<1> QED BY <1>1, <1>2

LEMMA PrepareFailsStep ==
    ASSUME IInv, PrepareFails
    PROVE  IInv'
<1>1. outcome' \in [ok: BOOLEAN, verdict: Verdicts \cup {"none"}]
  BY DEF PrepareFails, Fails, Failure
<1> QED BY <1>1, RunnerMoves
        DEF PrepareFails, Fails, IInv, TypeOK, RunTypeOK, Handling, Executing, ItemInHand,
            RequestsLeft, FailuresLeft

LEMMA FinishesStep ==
    ASSUME IInv, Finishes
    PROVE  IInv'
BY RunnerMoves DEF Finishes, FinalStatus, IInv, TypeOK, RunTypeOK, cursor, Handling, Executing

-------------------------------------------------------------------------------
(* The steps that book a failure or an execution. *)

LEMMA ControlUnrenderedStep ==
    ASSUME IInv, ControlUnrendered
    PROVE  IInv'
<1>1. /\ pc = "control" /\ pc' = "gate" /\ failures' = failures + 1 /\ warned' = TRUE
      /\ UNCHANGED <<targetVars, plan, cancelled, elapsed, todo, item, kind, outcome,
                     requests, executions, findings, status, issued>>
  BY DEF ControlUnrendered, CountsFailure, cursor, targetVars
<1>2. controls' \in [DOMAIN Library -> {"none", "observed", "missing"}]
  BY DEF ControlUnrendered, IInv, TypeOK, RunTypeOK
<1>3. failures \in Nat /\ failures < plan.failures /\ plan.failures \in Nat
  BY <1>1, PlanTypes DEF IInv, FailuresLeft, TypeOK, RunTypeOK
<1>4. Selected' = Selected
  BY <1>1, SelectionFixed
<1>5. RunTypeOK'
  BY <1>1, <1>2, <1>3, <1>4 DEF IInv, TypeOK, RunTypeOK
<1>6. ItemInHand'
  BY <1>1, <1>4 DEF IInv, ItemInHand, Handling
<1>7. RequestsLeft' /\ FailuresLeft' /\ InvocationsBooked'
  BY <1>1, <1>3 DEF IInv, RequestsLeft, FailuresLeft, InvocationsBooked, Executing
<1> QED BY <1>1, <1>5, <1>6, <1>7, TargetAlone DEF IInv, TypeOK

LEMMA AttackUnrenderedStep ==
    ASSUME IInv, AttackUnrendered
    PROVE  IInv'
<1>1. /\ pc = "gate" /\ pc' = "unrendered" /\ failures' = failures + 1 /\ warned' = TRUE
      /\ UNCHANGED <<targetVars, plan, cancelled, elapsed, todo, item, kind, outcome, controls,
                     requests, executions, findings, status, issued>>
  BY DEF AttackUnrendered, GateOpen, CountsFailure, cursor, books, targetVars
<1>3. failures \in Nat /\ failures < plan.failures /\ plan.failures \in Nat
  BY PlanTypes DEF AttackUnrendered, GateOpen, TooManyFailures, IInv, TypeOK, RunTypeOK
<1>4. Selected' = Selected
  BY <1>1, SelectionFixed
<1>5. RunTypeOK'
  BY <1>1, <1>3, <1>4 DEF IInv, TypeOK, RunTypeOK
<1>6. ItemInHand'
  BY <1>1, <1>4 DEF IInv, ItemInHand, Handling
<1>7. RequestsLeft' /\ FailuresLeft' /\ InvocationsBooked'
  BY <1>1, <1>3 DEF IInv, RequestsLeft, FailuresLeft, InvocationsBooked, Executing
<1> QED BY <1>1, <1>5, <1>6, <1>7, TargetAlone DEF IInv, TypeOK

LEMMA BooksStep ==
    ASSUME IInv, Books
    PROVE  IInv'
<1>1. /\ pc \in {"report", "book"} /\ pc' \in {"gate", "finish", "tail"}
      /\ requests' = requests + 1 /\ failures' \in {failures, failures + 1}
      /\ UNCHANGED <<targetVars, plan, cancelled, elapsed, todo, item, kind, status, issued>>
  BY DEF Books, targetVars
<1>2. item \in Selected /\ item \in Items /\ item.case \in DOMAIN Library /\ item.payload \in Nat
  BY <1>1, SelectedInLibrary DEF IInv, ItemInHand, Handling
<1>3. /\ requests \in Nat /\ requests < plan.requests /\ plan.requests \in Nat
      /\ failures \in Nat /\ failures < plan.failures /\ plan.failures \in Nat
  BY <1>1, PlanTypes DEF IInv, FailuresLeft, RequestsLeft, TypeOK, RunTypeOK, Executing
<1>4. Selected' = Selected
  BY <1>1, SelectionFixed
<1>5. RunTypeOK'
  <2>1. controls' \in [DOMAIN Library -> {"none", "observed", "missing"}]
    BY DEF Books, IInv, TypeOK, RunTypeOK
  <2>2. outcome' \in [ok: BOOLEAN, verdict: Verdicts \cup {"none"}]
    BY DEF Books, Failure
  <2>3. outcome.ok \in BOOLEAN
    BY DEF IInv, TypeOK, RunTypeOK
  <2>4. Execution \in Executions
    BY <1>2, <2>3 DEF Execution, Executions, Invocation
  <2>5. executions' \in Seq(Executions)
    BY <2>4 DEF Books, IInv, TypeOK, RunTypeOK
  <2>6. findings' \subseteq Items
    BY <1>2 DEF Books, IInv, TypeOK, RunTypeOK
  <2>7. warned' \in BOOLEAN
    BY DEF Books
  <2>8. /\ requests' \in Nat /\ failures' \in Nat
        /\ pc' \in {"gate", "finish", "tail"}
    BY <1>1, <1>3
  <2> QED BY <1>1, <1>4, <2>1, <2>2, <2>5, <2>6, <2>7, <2>8 DEF IInv, TypeOK, RunTypeOK
<1>6. ItemInHand'
  BY <1>1, <1>2, <1>4 DEF ItemInHand
<1>7. RequestsLeft' /\ FailuresLeft'
  BY <1>1, <1>3 DEF RequestsLeft, FailuresLeft, Executing
<1>8. InvocationsBooked'
  <2>1. issued \in Nat /\ issued <= requests + 1
    BY DEF IInv, TypeOK, TargetTypeOK, InvocationsBooked
  <2> QED BY <1>1, <1>3, <2>1 DEF InvocationsBooked
<1> QED BY <1>1, <1>5, <1>6, <1>7, <1>8, TargetAlone DEF IInv, TypeOK

-------------------------------------------------------------------------------
(* The steps of an invocation. *)

(* The runner's part of the invariant, when only pc and the outcome change *)
(* while a payload is executed.                                            *)
LEMMA ExecuteMoves ==
    ASSUME IInv, pc \in Executing, pc' \in Executing,
           UNCHANGED <<plan, elapsed, todo, item, kind, books, failures, warned, status>>,
           cancelled' \in BOOLEAN,
           outcome' \in [ok: BOOLEAN, verdict: Verdicts \cup {"none"}]
    PROVE  RunTypeOK' /\ ItemInHand' /\ RequestsLeft' /\ FailuresLeft'
<1>1. Selected' = Selected
  BY SelectionFixed
<1>2. UNCHANGED <<controls, requests, executions, findings>>
  BY DEF books
<1>3. RunTypeOK'
  BY <1>1, <1>2 DEF IInv, TypeOK, RunTypeOK, Executing
<1>4. ItemInHand'
  BY <1>1 DEF IInv, ItemInHand, Handling, Executing
<1>5. RequestsLeft' /\ FailuresLeft'
  BY <1>2 DEF IInv, RequestsLeft, FailuresLeft, Executing
<1> QED BY <1>3, <1>4, <1>5

(* A preparation: nothing takes off when the run has been cancelled.       *)
LEMMA PreparesStep ==
    ASSUME IInv, Prepares
    PROVE  IInv'
<1>1. /\ pc = "prepare" /\ pc' = "flight"
      /\ issued' = issued + 1
      /\ dropped' = IF cancelled THEN dropped \cup {issued + 1} ELSE dropped
      /\ phase' = IF issued + 1 \in dropped' THEN "failed" ELSE "sending"
      /\ hops' = 0 /\ interrupted' = FALSE
      /\ UNCHANGED <<authorized, used, failed, sent, plan, cancelled, elapsed, todo, item,
                     kind, outcome, books, requests, failures, warned, status>>
  BY DEF Prepares, Admit, cursor, books
<1>2. issued \in Nat /\ requests \in Nat /\ issued <= requests
  BY <1>1 DEF IInv, TypeOK, TargetTypeOK, RunTypeOK, InvocationsBooked
<1>3. TargetTypeOK'
  <2>1. dropped \subseteq 1..issued
    BY DEF IInv, TypeOK, TargetTypeOK
  <2>2. dropped' \subseteq 1..(issued + 1)
    BY <1>1, <1>2, <2>1
  <2>3. 0 \in 0..MaxRedirects
    BY BudgetAssumption
  <2>4. issued' \in Nat /\ dropped' \subseteq 1..issued'
    BY <1>1, <1>2, <2>2
  <2>5. phase' \in {"sending", "failed"}
    BY <1>1
  <2>6. authorized \in BOOLEAN /\ used \in Nat /\ failed \in Nat
    BY DEF IInv, TypeOK, TargetTypeOK
  <2> QED BY <1>1, <2>3, <2>4, <2>5, <2>6 DEF TargetTypeOK
<1>4. RunTypeOK' /\ ItemInHand' /\ RequestsLeft' /\ FailuresLeft'
  <2>1. /\ outcome' \in [ok: BOOLEAN, verdict: Verdicts \cup {"none"}]
        /\ cancelled' \in BOOLEAN
    BY <1>1 DEF IInv, TypeOK, RunTypeOK
  <2> QED BY <1>1, <2>1, ExecuteMoves DEF Executing
<1>5. InvocationsBooked' /\ InFlightIssued'
  BY <1>1, <1>2 DEF InvocationsBooked, InFlightIssued
<1>6. SentWasIssued' /\ sent' \subseteq Requests
  <2>1. \A r \in sent : r.id \in Nat /\ r.id <= issued
    BY DEF IInv, TypeOK, SentWasIssued, Requests
  <2> QED BY <1>1, <1>2, <2>1 DEF IInv, TypeOK, SentWasIssued
<1>7. OnlyInFlight' /\ CancelReaches'
  BY <1>1 DEF OnlyInFlight, CancelReaches
<1>8. InFlightAllowed'
  BY <1>1 DEF Prepares, Refused, InFlightAllowed, Blocked, Case, Payload
<1>9. SafeModeIsSafe'
  BY <1>1 DEF IInv, SafeModeIsSafe
<1> QED BY <1>3, <1>4, <1>5, <1>6, <1>7, <1>8, <1>9 DEF IInv, TypeOK

(* The end of an invocation. *)
LEMMA CollectStep ==
    ASSUME IInv, FlightFails \/ Judges
    PROVE  IInv'
<1>1. /\ pc = "flight" /\ pc' \in {"report", "book"}
      /\ phase' = "idle"
      /\ UNCHANGED <<authorized, used, failed, issued, dropped, hops, interrupted, sent, plan,
                     cancelled, elapsed, todo, item, kind, books, requests, failures, warned,
                     status>>
  BY DEF FlightFails, Judges, Fails, Collected, books
<1>2. outcome' \in [ok: BOOLEAN, verdict: Verdicts \cup {"none"}]
  <2>1. Failure \in [ok: BOOLEAN, verdict: Verdicts \cup {"none"}]
    BY DEF Failure
  <2>2. CASE outcome' = Failure
    BY <2>1, <2>2
  <2>3. CASE outcome' # Failure
    <3>1. PICK verdict \in Verdicts \cup {"none"} : outcome' = [ok |-> TRUE, verdict |-> verdict]
      BY <2>3 DEF FlightFails, Judges, Fails
    <3> QED BY <3>1
  <2> QED BY <2>2, <2>3
<1>3. TargetTypeOK' /\ sent' \subseteq Requests
  BY <1>1 DEF IInv, TypeOK, TargetTypeOK
<1>4. RunTypeOK' /\ ItemInHand' /\ RequestsLeft' /\ FailuresLeft'
  <2>1. cancelled' \in BOOLEAN
    BY <1>1 DEF IInv, TypeOK, RunTypeOK
  <2> QED BY <1>1, <1>2, <2>1, ExecuteMoves DEF Executing
<1>5. InvocationsBooked' /\ SentWasIssued' /\ InFlightIssued'
  BY <1>1 DEF IInv, InvocationsBooked, SentWasIssued, InFlightIssued
<1>6. OnlyInFlight' /\ CancelReaches' /\ InFlightAllowed'
  BY <1>1 DEF OnlyInFlight, CancelReaches, InFlightAllowed
<1>7. SafeModeIsSafe'
  BY <1>1 DEF IInv, SafeModeIsSafe
<1> QED BY <1>3, <1>4, <1>5, <1>6, <1>7 DEF IInv, TypeOK

(* A step of the target while the invocation is in flight.                 *)
LEMMA FliesStep ==
    ASSUME IInv, Flies
    PROVE  IInv'
<1>1. pc = "flight" /\ UNCHANGED runVars /\ TargetStep(Invocation)
  BY DEF Flies
<1>2. /\ UNCHANGED <<plan, pc, cancelled, elapsed, todo, item, kind, outcome, books, requests,
                     failures, warned, status>>
  BY <1>1 DEF runVars, cursor, books
<1>3. RunTypeOK' /\ ItemInHand' /\ RequestsLeft' /\ FailuresLeft'
  <2>1. /\ outcome' \in [ok: BOOLEAN, verdict: Verdicts \cup {"none"}]
        /\ cancelled' \in BOOLEAN
    BY <1>2 DEF IInv, TypeOK, RunTypeOK
  <2> QED BY <1>1, <1>2, <2>1, ExecuteMoves DEF Executing
<1>4. OnlyInFlight' /\ InFlightAllowed'
  BY <1>1, <1>2 DEF IInv, OnlyInFlight, InFlightAllowed, Case, Payload
<1>5. /\ UNCHANGED <<authorized, issued, dropped>>
      /\ used' \in {used, used + 1} /\ failed' \in {failed, failed + 1}
  BY <1>1 DEF TargetStep, SendsRequest, Redirects, Answers, Rests, Errs, Breaks, Interrupted
<1>6. hops' \in 0..MaxRedirects
  <2>1. hops \in 0..MaxRedirects /\ MaxRedirects \in Nat
    BY BudgetAssumption DEF IInv, TypeOK, TargetTypeOK
  <2>2. \/ hops' = hops \/ hops' = 0
        \/ hops < MaxRedirects /\ hops' = hops + 1
    BY <1>1 DEF TargetStep, SendsRequest, Redirects, Answers, Rests, Errs, Breaks, Interrupted
  <2> QED BY <2>1, <2>2
<1>7. /\ phase' \in {"sending", "waiting", "resting", "answered", "failed"}
      /\ interrupted' \in {interrupted, FALSE}
  BY <1>1 DEF TargetStep, SendsRequest, Redirects, Answers, Rests, Errs, Breaks, Interrupted
<1>8. TargetTypeOK'
  <2>1. used \in Nat /\ failed \in Nat /\ interrupted \in BOOLEAN
    BY DEF IInv, TypeOK, TargetTypeOK
  <2>2. used' \in Nat /\ failed' \in Nat
    BY <1>5, <2>1
  <2>3. interrupted' \in BOOLEAN
    BY <1>7, <2>1
  <2> QED BY <1>5, <1>6, <1>7, <2>2, <2>3 DEF IInv, TypeOK, TargetTypeOK
<1>9. CancelReaches'
  <2>1. phase' \in {"sending", "waiting"} =>
            phase \in {"sending", "waiting"} /\ UNCHANGED interrupted
    BY <1>1 DEF TargetStep, SendsRequest, Redirects, Answers, Rests, Errs, Breaks, Interrupted
  <2> QED BY <1>2, <2>1 DEF IInv, CancelReaches
<1>10. InvocationsBooked' /\ InFlightIssued'
  BY <1>2, <1>5 DEF IInv, InvocationsBooked, InFlightIssued
<1>11. CASE UNCHANGED sent
  <2>1. sent' \subseteq Requests /\ SentWasIssued'
    BY <1>5, <1>11 DEF IInv, TypeOK, SentWasIssued
  <2>2. SafeModeIsSafe'
    BY <1>2, <1>11 DEF IInv, SafeModeIsSafe
  <2> QED BY <1>3, <1>4, <1>8, <1>9, <1>10, <2>1, <2>2 DEF IInv, TypeOK
<1>12. CASE SendsRequest(Invocation)
  <2> DEFINE r == [id |-> issued, case |-> Invocation.case,
                   payload |-> Invocation.payload, hop |-> hops]
  <2>1. sent' = sent \cup {r}
    BY <1>12 DEF SendsRequest
  <2>2. /\ item \in Selected /\ item.case \in DOMAIN Library
        /\ item.payload \in Nat \ {0}
    BY <1>1, SelectedInLibrary DEF IInv, ItemInHand, Handling
  <2>3. /\ r.case = item.case
        /\ r.payload = IF kind = "control" THEN 0 ELSE item.payload
        /\ r.id = issued /\ r.hop = hops
    BY DEF Invocation
  <2>4. issued \in Nat \ {0}
    BY <1>1 DEF IInv, InFlightIssued
  <2>5. r \in Requests
    <3>1. hops \in 0..MaxRedirects
      BY DEF IInv, TypeOK, TargetTypeOK
    <3> QED BY <2>2, <2>3, <2>4, <3>1 DEF Requests
  <2>6. sent' \subseteq Requests
    BY <2>1, <2>5 DEF IInv, TypeOK
  <2>7. SentWasIssued'
    <3>1. \A q \in sent' : q \in sent \/ q.id = issued
      BY <2>1, <2>3
    <3>2. \A q \in sent : q.id <= issued
      BY DEF IInv, SentWasIssued
    <3> QED BY <1>5, <2>4, <3>1, <3>2 DEF SentWasIssued
  <2>8. SafeModeIsSafe'
    <3>1. SUFFICES ASSUME plan.mode = "safe"
                   PROVE  SafeModeIsSafe'
      BY <1>2 DEF SafeModeIsSafe
    <3>2. Payload.safe /\ Case.safeDefault /\ (Case.tools => Payload.canary)
      BY <1>1, <3>1 DEF IInv, InFlightAllowed, Blocked
    <3>3. /\ Library[r.case] = Case
          /\ Payload = IF r.payload = 0 THEN Case.control ELSE Case.payloads[r.payload]
      BY <2>2, <2>3 DEF Case, Payload
    <3> HIDE DEF r
    <3> QED BY <1>2, <2>1, <3>1, <3>2, <3>3 DEF IInv, SafeModeIsSafe
  <2> QED BY <1>3, <1>4, <1>8, <1>9, <1>10, <2>6, <2>7, <2>8 DEF IInv, TypeOK
<1> QED BY <1>1, <1>11, <1>12
        DEF TargetStep, Redirects, Answers, Rests, Errs, Breaks, Interrupted

-------------------------------------------------------------------------------
(* The steps around the run. *)

(* cancel() reaches the invocation in flight: the runner knows its id for  *)
(* as long as it is registered.                                            *)
LEMMA CancelsStep ==
    ASSUME IInv, Cancels
    PROVE  IInv'
<1>1. /\ cancelled' = TRUE
      /\ dropped' = dropped \cup Current
      /\ interrupted' = (interrupted \/ (Registered /\ issued \in Current))
      /\ UNCHANGED <<authorized, used, failed, issued, phase, hops, sent, plan, pc, elapsed, todo,
                     item, kind, outcome, books, controls, requests, executions, findings,
                     failures, warned, status>>
  BY DEF Cancels, Revoke, cursor, books
<1>2. Selected' = Selected
  BY <1>1, SelectionFixed
<1>3. RunTypeOK'
  BY <1>1, <1>2 DEF IInv, TypeOK, RunTypeOK
<1>4. TargetTypeOK' /\ sent' \subseteq Requests
  <2>1. Current \subseteq 1..issued
    BY DEF IInv, TypeOK, TargetTypeOK, InFlightIssued, Current
  <2>2. interrupted' \in BOOLEAN
    BY <1>1 DEF IInv, TypeOK, TargetTypeOK
  <2> QED BY <1>1, <2>1, <2>2 DEF IInv, TypeOK, TargetTypeOK
<1>5. ItemInHand' /\ RequestsLeft' /\ FailuresLeft' /\ InvocationsBooked' /\ SentWasIssued'
  BY <1>1, <1>2 DEF IInv, ItemInHand, RequestsLeft, FailuresLeft, InvocationsBooked, SentWasIssued
<1>6. OnlyInFlight' /\ InFlightAllowed' /\ SafeModeIsSafe'
  BY <1>1 DEF IInv, OnlyInFlight, InFlightAllowed, SafeModeIsSafe, Case, Payload
<1>7. CancelReaches'
  BY <1>1 DEF IInv, OnlyInFlight, CancelReaches, Current, Registered
<1>8. InFlightIssued'
  BY <1>1 DEF IInv, InFlightIssued
<1> QED BY <1>3, <1>4, <1>5, <1>6, <1>7, <1>8 DEF IInv, TypeOK

LEMMA TickStep ==
    ASSUME IInv, Tick
    PROVE  IInv'
<1>1. /\ elapsed' = elapsed + 1 /\ elapsed < plan.duration
      /\ UNCHANGED <<authorized, used, failed, issued, dropped, phase, hops, interrupted, sent,
                     plan, pc, cancelled, todo, item, kind, outcome, controls, requests,
                     executions, findings, failures, warned, status>>
  <2>1. elapsed \in 0..plan.duration /\ plan.duration \in Nat
    BY PlanTypes DEF IInv, TypeOK, RunTypeOK
  <2> QED BY <2>1 DEF Tick, OutOfTime, cursor, books, targetVars, flightVars
<1>2. elapsed' \in 0..plan.duration
  BY <1>1, PlanTypes DEF IInv, TypeOK, RunTypeOK
<1>3. Selected' = Selected
  BY <1>1, SelectionFixed
<1>4. TypeOK'
  BY <1>1, <1>2, <1>3 DEF IInv, TypeOK, TargetTypeOK, RunTypeOK
<1>5. ItemInHand' /\ RequestsLeft' /\ FailuresLeft' /\ InvocationsBooked' /\ SentWasIssued'
  BY <1>1, <1>3 DEF IInv, ItemInHand, RequestsLeft, FailuresLeft, InvocationsBooked, SentWasIssued
<1>6. InFlightIssued' /\ OnlyInFlight' /\ CancelReaches'
  BY <1>1 DEF IInv, InFlightIssued, OnlyInFlight, CancelReaches
<1>7. InFlightAllowed' /\ SafeModeIsSafe'
  BY <1>1 DEF IInv, InFlightAllowed, SafeModeIsSafe, Case, Payload
<1> QED BY <1>4, <1>5, <1>6, <1>7 DEF IInv

LEMMA ExpiresStep ==
    ASSUME IInv, AuthorizationExpires \/ UNCHANGED vars
    PROVE  IInv'
<1>1. /\ authorized' \in {authorized, FALSE}
      /\ UNCHANGED <<used, failed, issued, dropped, phase, hops, interrupted, sent, elapsed,
                     plan, pc, cancelled, todo, item, kind, outcome, controls, requests,
                     executions, findings, failures, warned, status>>
  BY DEF AuthorizationExpires, Expires, vars, runVars, cursor, books, targetVars, flightVars
<1>2. Selected' = Selected
  BY <1>1, SelectionFixed
<1>3. TypeOK'
  <2>1. authorized' \in BOOLEAN
    BY <1>1 DEF IInv, TypeOK, TargetTypeOK
  <2>2. TargetTypeOK' /\ sent' \subseteq Requests
    BY <1>1, <2>1 DEF IInv, TypeOK, TargetTypeOK
  <2>3. RunTypeOK'
    BY <1>1, <1>2 DEF IInv, TypeOK, RunTypeOK
  <2> QED BY <2>2, <2>3 DEF TypeOK
<1>4. ItemInHand' /\ RequestsLeft' /\ FailuresLeft' /\ InvocationsBooked' /\ SentWasIssued'
  BY <1>1, <1>2 DEF IInv, ItemInHand, RequestsLeft, FailuresLeft, InvocationsBooked, SentWasIssued
<1>5. InFlightIssued' /\ OnlyInFlight' /\ CancelReaches'
  BY <1>1 DEF IInv, InFlightIssued, OnlyInFlight, CancelReaches
<1>6. InFlightAllowed' /\ SafeModeIsSafe'
  BY <1>1 DEF IInv, InFlightAllowed, SafeModeIsSafe, Case, Payload
<1> QED BY <1>3, <1>4, <1>5, <1>6 DEF IInv

LEMMA StepInvariant == IInv /\ [Next]_vars => IInv'
<1> SUFFICES ASSUME IInv, [Next]_vars PROVE IInv'
  OBVIOUS
<1>1. CASE Rejects \/ Starts \/ Selects
  BY <1>1, BeginStep
<1>2. CASE LoopEnds \/ TakesPayload
  BY <1>2, LoopStep
<1>3. CASE WithoutControl \/ ControlTooDear \/ StartsControl
  BY <1>3, ControlStep
<1>4. CASE GateCloses \/ StartsAttack
  BY <1>4, GateStep
<1>5. CASE AfterUnrendered \/ AfterAttack
  BY <1>5, NextPayloadStep
<1>6. CASE ControlUnrendered \/ AttackUnrendered
  BY <1>6, ControlUnrenderedStep, AttackUnrenderedStep
<1>7. CASE PrepareFails \/ Prepares
  BY <1>7, PrepareFailsStep, PreparesStep
<1>8. CASE Flies
  BY <1>8, FliesStep
<1>9. CASE FlightFails \/ Judges
  BY <1>9, CollectStep
<1>10. CASE Books
  BY <1>10, BooksStep
<1>11. CASE Finishes
  BY <1>11, FinishesStep
<1>12. CASE Cancels
  BY <1>12, CancelsStep
<1>13. CASE Tick
  BY <1>13, TickStep
<1>14. CASE AuthorizationExpires \/ UNCHANGED vars
  BY <1>14, ExpiresStep
<1> QED
  BY <1>1, <1>2, <1>3, <1>4, <1>5, <1>6, <1>7, <1>8, <1>9, <1>10, <1>11, <1>12, <1>13, <1>14
  DEF Next, Runs

LEMMA Invariance == Spec => []IInv
BY InitInvariant, StepInvariant, PTL DEF Spec

-------------------------------------------------------------------------------
(* Every reachable state is well-typed, and no invocation follows more     *)
(* redirects than it may.                                                  *)
THEOREM ActiveRunTypeCorrect == Spec => []TypeOK
<1>1. IInv => TypeOK
  BY DEF IInv
<1> QED BY <1>1, Invariance, PTL

(* A run spends no more requests than its plan grants, the target sees no  *)
(* more invocations than that, and the tolerated failures are not          *)
(* exceeded.                                                               *)
THEOREM BudgetsHold == Spec => []PlanBudgets
<1>1. IInv => PlanBudgets
  <2> SUFFICES ASSUME IInv PROVE PlanBudgets
    OBVIOUS
  <2>1. /\ issued \in Nat /\ requests \in Nat /\ plan.requests \in Nat
        /\ issued <= plan.requests
    BY PlanTypes DEF IInv, TypeOK, TargetTypeOK, RunTypeOK, RequestsLeft, InvocationsBooked,
       Executing
  <2>2. Ids \subseteq 1..issued
    BY <2>1 DEF IInv, TypeOK, SentWasIssued, Ids, Requests
  <2>3. IsFiniteSet(1..issued) /\ Cardinality(1..issued) = issued
    BY <2>1, FS_Interval
  <2>4. IsFiniteSet(Ids) /\ Cardinality(Ids) <= issued
    BY <2>2, <2>3, FS_Subset
  <2>5. Cardinality(Ids) \in Nat
    BY <2>4, FS_CardinalityType
  <2>6. Cardinality(Ids) <= plan.requests
    BY <2>1, <2>4, <2>5
  <2> QED BY <2>6 DEF IInv, RequestsLeft, FailuresLeft, PlanBudgets
<1> QED BY <1>1, Invariance, PTL

(* In safe mode, what reaches the target is safe: the runner selects and   *)
(* the adapter checks again, and the item in hand stays the same between   *)
(* the check and the request.                                              *)
THEOREM SafeModeHolds == Spec => []SafeModeIsSafe
<1>1. IInv => SafeModeIsSafe
  BY DEF IInv
<1> QED BY <1>1, Invariance, PTL

(* cancel() silences the run: the flag is read again once the invocation   *)
(* has an id, and an invocation in flight is interrupted in the step that  *)
(* sets the flag.                                                          *)
THEOREM CancellationHolds == Spec => CancelledIsSilent
<1>1. IInv /\ [Next]_vars => [cancelled => sent' = sent]_vars
  <2> SUFFICES ASSUME IInv, [Next]_vars, cancelled
               PROVE  sent' = sent
    OBVIOUS
  <2>1. CASE Flies
    <3>1. ~SendsRequest(Invocation)
      BY DEF SendsRequest, IInv, CancelReaches
    <3> QED BY <2>1, <3>1 DEF Flies, TargetStep, Redirects, Answers, Rests, Errs, Breaks,
               Interrupted
  <2>2. CASE Prepares \/ Judges \/ FlightFails
    BY <2>2 DEF Prepares, Admit, Judges, FlightFails, Collected
  <2>3. CASE Cancels \/ Tick \/ AuthorizationExpires \/ UNCHANGED vars
    BY <2>3 DEF Cancels, Revoke, Tick, AuthorizationExpires, Expires, targetVars, vars
  <2>4. CASE \/ Rejects \/ Starts \/ Selects \/ LoopEnds \/ TakesPayload
             \/ WithoutControl \/ ControlTooDear \/ ControlUnrendered \/ StartsControl
             \/ GateCloses \/ AttackUnrendered \/ AfterUnrendered \/ StartsAttack
             \/ PrepareFails \/ Books \/ AfterAttack \/ Finishes
    <3>1. UNCHANGED targetVars
      BY <2>4 DEF Rejects, Starts, Selects, LoopEnds, TakesPayload, WithoutControl,
         ControlTooDear, ControlUnrendered, StartsControl, GateCloses, AttackUnrendered,
         AfterUnrendered, StartsAttack, PrepareFails, Books, AfterAttack, Finishes, LeavesLoop
    <3> QED BY <3>1 DEF targetVars
  <2> QED BY <2>1, <2>2, <2>3, <2>4 DEF Next, Runs
<1> QED BY <1>1, Invariance, PTL DEF Spec, CancelledIsSilent

-------------------------------------------------------------------------------
(* What the runner knows of controls. *)

Executed(c, p) == \E n \in DOMAIN executions :
    executions[n].case = c /\ executions[n].payload = p

(* A control that ran is on record with its result. *)
ControlsRecorded == \A n \in DOMAIN executions :
    executions[n].payload = 0 =>
        controls[executions[n].case] = IF executions[n].ok THEN "observed" ELSE "missing"

(* A case that still needs its control has not been touched. *)
Untouched == \A n \in DOMAIN executions :
    Controlled(executions[n].case) => controls[executions[n].case] # "none"

(* What is on record comes from an execution, or else the control cannot   *)
(* be rendered.                                                            *)
RecordsAreReal == \A c \in DOMAIN Library :
    /\ controls[c] = "observed" => Completed(c, 0)
    /\ controls[c] = "missing" /\ Library[c].control.renders => Executed(c, 0)

(* A control is executed when it is needed, an attack when it is not.      *)
ControlInHand == pc \in Executing => (kind = "control" <=> NeedsControl)

PastControl == pc = "gate" => ~NeedsControl

ControlsInv ==
    /\ ControlsFirst /\ ControlsRecorded /\ Untouched /\ RecordsAreReal
    /\ ControlInHand /\ PastControl

-------------------------------------------------------------------------------
(* Booking appends one execution, of the invocation in hand. *)
LEMMA Booked ==
    ASSUME IInv, Books
    PROVE  /\ DOMAIN executions = 1..Len(executions) /\ Len(executions) \in Nat
           /\ DOMAIN executions' = 1..(Len(executions) + 1)
           /\ \A n \in DOMAIN executions : n \in DOMAIN executions' /\ executions'[n] = executions[n]
           /\ \A n \in DOMAIN executions' : n \in DOMAIN executions \/ n = Len(executions) + 1
           /\ executions'[Len(executions) + 1] = Execution
           /\ \A n \in DOMAIN executions : executions[n].case \in DOMAIN Library
           /\ item \in Selected /\ item.case \in DOMAIN Library /\ item.payload \in Nat \ {0}
<1>1. /\ item \in Selected /\ item.case \in DOMAIN Library /\ item.payload \in Nat \ {0}
  BY SelectedInLibrary DEF Books, IInv, ItemInHand, Handling
<1>2. outcome.ok \in BOOLEAN
  BY DEF IInv, TypeOK, RunTypeOK
<1>3. Execution \in Executions
  BY <1>1, <1>2 DEF Execution, Executions, Invocation
<1>4. executions \in Seq(Executions)
  BY DEF IInv, TypeOK, RunTypeOK
<1>5. \A n \in DOMAIN executions : executions[n] \in Executions
  BY <1>4
<1>6. executions' = Append(executions, Execution)
  BY DEF Books
<1>7. /\ DOMAIN executions = 1..Len(executions) /\ Len(executions) \in Nat
      /\ DOMAIN executions' = 1..(Len(executions) + 1)
      /\ \A n \in 1..Len(executions) : executions'[n] = executions[n]
      /\ executions'[Len(executions) + 1] = Execution
  BY <1>3, <1>4, <1>6
<1>8. \A n \in DOMAIN executions : executions[n].case \in DOMAIN Library
  BY <1>5 DEF Executions
<1> QED BY <1>1, <1>7, <1>8

(* A step that leaves the executions and the controls alone. *)
LEMMA ControlsQuiet ==
    ASSUME ControlsInv, UNCHANGED <<plan, controls, executions>>,
           pc' \in Executing => (kind' = "control" <=> NeedsControl'),
           pc' = "gate" => ~NeedsControl'
    PROVE  ControlsInv'
<1>1. ControlsFirst'
  BY DEF ControlsInv, ControlsFirst, Controlled
<1>2. ControlsRecorded' /\ Untouched'
  BY DEF ControlsInv, ControlsRecorded, Untouched, Controlled
<1>3. RecordsAreReal'
  BY DEF ControlsInv, RecordsAreReal, Completed, Executed
<1>4. ControlInHand' /\ PastControl'
  BY DEF ControlInHand, PastControl
<1> QED BY <1>1, <1>2, <1>3, <1>4 DEF ControlsInv

(* The runner learns that a control cannot be rendered: nothing of the     *)
(* case has been executed.                                                 *)
LEMMA UnrenderedControl ==
    ASSUME IInv, ControlsInv, ControlUnrendered
    PROVE  ControlsInv'
<1>1. /\ pc = "control" /\ pc' = "gate" /\ NeedsControl /\ ~Library[item.case].control.renders
      /\ controls' = [controls EXCEPT ![item.case] = "missing"]
      /\ UNCHANGED <<plan, item, executions>>
  BY DEF ControlUnrendered, CountsFailure, cursor, Case
<1>2. /\ item \in Selected /\ item.case \in DOMAIN Library
      /\ controls \in [DOMAIN Library -> {"none", "observed", "missing"}]
  BY <1>1, SelectedInLibrary DEF IInv, ItemInHand, Handling, TypeOK, RunTypeOK
<1>3. /\ controls'[item.case] = "missing"
      /\ \A c \in DOMAIN Library : c # item.case => controls'[c] = controls[c]
  BY <1>1, <1>2
<1>4. \A n \in DOMAIN executions : executions[n].case \in DOMAIN Library /\ executions[n].case # item.case
  <2>1. \A n \in DOMAIN executions : executions[n] \in Executions
    BY DEF IInv, TypeOK, RunTypeOK
  <2>2. \A n \in DOMAIN executions : executions[n].case \in DOMAIN Library
    BY <2>1 DEF Executions
  <2> QED BY <1>1, <2>2 DEF NeedsControl, Controlled, ControlsInv, Untouched
<1>5. ControlsFirst'
  BY <1>1 DEF ControlsInv, ControlsFirst, Controlled
<1>6. ControlsRecorded' /\ Untouched'
  BY <1>1, <1>3, <1>4 DEF ControlsInv, ControlsRecorded, Untouched, Controlled
<1>7. RecordsAreReal'
  BY <1>1, <1>3 DEF ControlsInv, RecordsAreReal, Completed, Executed
<1>8. ControlInHand' /\ PastControl'
  BY <1>1, <1>3 DEF ControlInHand, PastControl, Executing, NeedsControl
<1> QED BY <1>5, <1>6, <1>7, <1>8 DEF ControlsInv

(* A control is booked in front of the attacks of its case, an attack with *)
(* what is known of the control.                                           *)
LEMMA BookedControl ==
    ASSUME IInv, ControlsInv, Books
    PROVE  ControlsInv'
<1> DEFINE L == Len(executions)
<1>1. /\ pc \in {"report", "book"} /\ pc' \in {"gate", "finish", "tail"}
      /\ controls' = IF kind = "attack" THEN controls
                     ELSE [controls EXCEPT ![item.case] = IF outcome.ok THEN "observed" ELSE "missing"]
      /\ UNCHANGED <<plan, item, kind>>
  BY DEF Books
<1>2. /\ DOMAIN executions = 1..L /\ L \in Nat /\ DOMAIN executions' = 1..(L + 1)
      /\ \A n \in DOMAIN executions : n \in DOMAIN executions' /\ executions'[n] = executions[n]
      /\ \A n \in DOMAIN executions' : n \in DOMAIN executions \/ n = L + 1
      /\ L + 1 \in DOMAIN executions' /\ executions'[L + 1] = Execution
      /\ \A n \in DOMAIN executions : executions[n].case \in DOMAIN Library
      /\ item.case \in DOMAIN Library /\ item.payload # 0
  BY Booked
<1>3. /\ controls \in [DOMAIN Library -> {"none", "observed", "missing"}]
      /\ kind \in {"control", "attack"} /\ outcome.ok \in BOOLEAN
  BY DEF IInv, TypeOK, RunTypeOK, Kinds
<1>4. /\ Execution.case = item.case /\ Execution.ok = outcome.ok
      /\ Execution.payload = IF kind = "control" THEN 0 ELSE item.payload
      /\ Execution.compared <=> kind = "attack" /\ controls[item.case] = "observed"
  BY DEF Execution, Invocation
<1>5. kind = "control" <=> NeedsControl
  BY <1>1 DEF ControlsInv, ControlInHand, Executing
<1>6. kind = "control" => \A n \in DOMAIN executions : executions[n].case # item.case
  BY <1>2, <1>5 DEF NeedsControl, Controlled, ControlsInv, Untouched
<1>7. /\ kind = "control" => controls'[item.case] = IF outcome.ok THEN "observed" ELSE "missing"
      /\ kind = "attack" => controls'[item.case] = controls[item.case]
      /\ \A c \in DOMAIN Library : c # item.case => controls'[c] = controls[c]
  BY <1>1, <1>2, <1>3
<1> HIDE DEF L
<1>8. ControlsFirst'
  <2>1. SUFFICES ASSUME NEW n \in DOMAIN executions'
        PROVE  LET e == executions'[n]
                   earlier == {k \in 1..(n - 1) : executions'[k].case = e.case}
                   control == {k \in earlier : executions'[k].payload = 0}
               IN  /\ e.payload = 0 => earlier = {}
                   /\ e.payload # 0 =>
                          /\ e.compared <=> \E k \in control : executions'[k].ok
                          /\ Controlled(e.case) /\ Library[e.case].control.renders => control # {}
    BY <1>1 DEF ControlsFirst, Controlled
  <2>2. \A k \in 1..(n - 1) : k \in DOMAIN executions /\ executions'[k] = executions[k]
    BY <1>2
  <2>3. CASE n \in DOMAIN executions
    <3>1. executions'[n] = executions[n]
      BY <1>2, <2>3
    <3> QED BY <2>2, <2>3, <3>1 DEF ControlsInv, ControlsFirst
  <2>4. CASE n = L + 1 /\ kind = "control"
    BY <1>2, <1>4, <1>6, <2>2, <2>4
  <2>5. CASE n = L + 1 /\ kind = "attack"
    <3>1. /\ executions'[n].case = item.case /\ executions'[n].payload # 0
          /\ executions'[n].compared <=> controls[item.case] = "observed"
      BY <1>2, <1>4, <2>5
    <3>2. 1..(n - 1) = DOMAIN executions
      BY <1>2, <2>5
    <3>3. controls[item.case] = "observed" <=>
              \E k \in DOMAIN executions : /\ executions[k].case = item.case
                                           /\ executions[k].payload = 0 /\ executions[k].ok
      BY <1>2, <1>3 DEF ControlsInv, ControlsRecorded, RecordsAreReal, Completed
    <3>4. Controlled(item.case) /\ Library[item.case].control.renders =>
              \E k \in DOMAIN executions : executions[k].case = item.case /\ executions[k].payload = 0
      BY <1>2, <1>3, <1>5, <2>5
      DEF NeedsControl, ControlsInv, RecordsAreReal, Completed, Executed
    <3> QED BY <1>2, <3>1, <3>2, <3>3, <3>4
  <2> QED BY <1>2, <1>3, <2>3, <2>4, <2>5
<1>9. ControlsRecorded'
  <2> SUFFICES ASSUME NEW n \in DOMAIN executions', executions'[n].payload = 0
               PROVE  controls'[executions'[n].case] =
                          IF executions'[n].ok THEN "observed" ELSE "missing"
    BY DEF ControlsRecorded
  <2>1. CASE n \in DOMAIN executions
    BY <1>2, <1>3, <1>6, <1>7, <2>1 DEF ControlsInv, ControlsRecorded
  <2>2. CASE n = L + 1
    BY <1>2, <1>3, <1>4, <1>7, <2>2
  <2> QED BY <1>2, <2>1, <2>2
<1>10. Untouched'
  <2> SUFFICES ASSUME NEW n \in DOMAIN executions', Controlled(executions'[n].case)
               PROVE  controls'[executions'[n].case] # "none"
    BY <1>1 DEF Untouched, Controlled
  <2>1. CASE n \in DOMAIN executions
    BY <1>2, <1>3, <1>6, <1>7, <2>1 DEF ControlsInv, Untouched
  <2>2. CASE n = L + 1
    BY <1>2, <1>3, <1>4, <1>5, <1>7, <2>2 DEF NeedsControl
  <2> QED BY <1>2, <2>1, <2>2
<1>11. RecordsAreReal'
  <2> SUFFICES ASSUME NEW c \in DOMAIN Library
               PROVE  /\ controls'[c] = "observed" => Completed(c, 0)'
                      /\ controls'[c] = "missing" /\ Library[c].control.renders => Executed(c, 0)'
    BY DEF RecordsAreReal
  <2>1. Completed(c, 0) => Completed(c, 0)'
    BY <1>2 DEF Completed
  <2>2. Executed(c, 0) => Executed(c, 0)'
    BY <1>2 DEF Executed
  <2>3. CASE c = item.case /\ kind = "control"
    BY <1>2, <1>3, <1>4, <1>7, <2>3 DEF Completed, Executed
  <2>4. CASE ~(c = item.case /\ kind = "control")
    BY <1>3, <1>7, <2>1, <2>2, <2>4 DEF ControlsInv, RecordsAreReal
  <2> QED BY <2>3, <2>4
<1>12. ControlInHand'
  BY <1>1 DEF ControlInHand, Executing
<1>13. PastControl'
  BY <1>1, <1>3, <1>5, <1>7 DEF PastControl, NeedsControl, Controlled
<1> QED BY <1>8, <1>9, <1>10, <1>11, <1>12, <1>13 DEF ControlsInv

LEMMA ControlsStep == IInv /\ ControlsInv /\ [Next]_vars => ControlsInv'
<1> SUFFICES ASSUME IInv, ControlsInv, [Next]_vars PROVE ControlsInv'
  OBVIOUS
<1>1. CASE \/ Rejects \/ Starts \/ Selects \/ LoopEnds \/ TakesPayload \/ ControlTooDear
           \/ GateCloses \/ AttackUnrendered \/ AfterUnrendered \/ AfterAttack \/ Finishes
  <2>1. /\ UNCHANGED <<plan, controls, executions>>
        /\ pc' \notin {"prepare", "flight", "report", "book", "gate"}
    BY <1>1 DEF Rejects, Starts, Selects, LoopEnds, TakesPayload, ControlTooDear, GateCloses,
       AttackUnrendered, GateOpen, CountsFailure, AfterUnrendered, AfterAttack, Finishes,
       LeavesLoop, books
  <2> QED BY <2>1, ControlsQuiet DEF Executing
<1>2. CASE WithoutControl \/ StartsControl \/ StartsAttack
  <2>1. /\ UNCHANGED <<plan, controls, executions, item>>
        /\ pc' \in {"prepare", "gate"}
        /\ pc' = "gate" => ~NeedsControl
        /\ pc' = "prepare" => (kind' = "control" <=> NeedsControl)
    BY <1>2 DEF WithoutControl, StartsControl, StartsAttack, GateOpen, books, cursor, ControlsInv,
       PastControl
  <2>2. NeedsControl' = NeedsControl
    BY <2>1 DEF NeedsControl, Controlled
  <2> QED BY <2>1, <2>2, ControlsQuiet DEF Executing
<1>3. CASE PrepareFails \/ Prepares \/ Flies \/ FlightFails \/ Judges
  <2>1. /\ UNCHANGED <<plan, controls, executions, item, kind>>
        /\ pc \in Executing /\ pc' \in Executing
    BY <1>3 DEF PrepareFails, Prepares, Flies, FlightFails, Judges, Fails, runVars, books, cursor,
       Executing
  <2>2. NeedsControl' = NeedsControl
    BY <2>1 DEF NeedsControl, Controlled
  <2> QED BY <2>1, <2>2, ControlsQuiet DEF Executing, ControlsInv, ControlInHand
<1>4. CASE ControlUnrendered
  BY <1>4, UnrenderedControl
<1>5. CASE Books
  BY <1>5, BookedControl
<1>6. CASE Cancels \/ Tick \/ AuthorizationExpires \/ UNCHANGED vars
  <2>1. UNCHANGED <<plan, controls, executions, item, kind, pc>>
    BY <1>6 DEF Cancels, Tick, AuthorizationExpires, vars, runVars, books, cursor
  <2>2. NeedsControl' = NeedsControl
    BY <2>1 DEF NeedsControl, Controlled
  <2> QED BY <2>1, <2>2, ControlsQuiet DEF ControlsInv, ControlInHand, PastControl
<1> QED BY <1>1, <1>2, <1>3, <1>4, <1>5, <1>6 DEF Next, Runs

LEMMA ControlsInvariance == Spec => []ControlsInv
<1>1. Init => ControlsInv
  BY DEF Init, ControlsInv, ControlsFirst, ControlsRecorded, Untouched, RecordsAreReal,
     ControlInHand, PastControl, Executing
<1> QED BY <1>1, ControlsStep, Invariance, PTL DEF Spec

(* A control runs once and before the attacks of its case, and an attack   *)
(* is compared with it exactly when it was observed, whatever failed,      *)
(* could not be rendered or was cancelled in between.                      *)
THEOREM ControlsComeFirst == Spec => []ControlsFirst
<1>1. ControlsInv => ControlsFirst
  BY DEF ControlsInv
<1> QED BY <1>1, ControlsInvariance, PTL

-------------------------------------------------------------------------------
(* What the run has done. *)

Preparing == {"idle", "rejected", "select"}

(* Nothing has happened before the loop.                                   *)
NothingDone == pc \in Preparing =>
    executions = <<>> /\ failures = 0 /\ findings = {} /\ controls = [i \in DOMAIN Library |-> "none"]

(* An outcome is one that was just reported. *)
OutcomeInHand ==
    /\ pc # "report" => outcome = Failure
    /\ pc = "report" => outcome.ok

(* A failed execution is a failure, a failure or a missing control has a   *)
(* warning.                                                                *)
FailuresWarn ==
    /\ \A n \in DOMAIN executions : ~executions[n].ok => failures > 0
    /\ failures > 0 => warned
    /\ \A c \in DOMAIN Library : controls[c] = "missing" => warned
    /\ pc = "unrendered" => warned

(* A finding comes from an execution that completed. *)
FindingsAreReal == findings # {} => \E n \in DOMAIN executions : executions[n].ok

(* Before its attack is booked. *)
Pending == Handling \ {"tail"}

(* Selected and not tried yet. *)
Awaits(m) == (pc # "finish" /\ m \in todo) \/ (pc \in Pending /\ m = item)

(* As long as there is no warning, what is selected is waiting, in hand or *)
(* completed, unless the run is leaving because it was cancelled.          *)
NothingDropped == pc \notin Preparing \cup {"done"} /\ ~warned =>
    /\ Skipped = {}
    /\ \/ pc = "finish" /\ cancelled
       \/ \A m \in Selected : Awaits(m) \/ Completed(m.case, m.payload)

StatusLate ==
    /\ pc \in Preparing => status \in {"pending", "running"}
    /\ pc # "done" => status \in {"pending", "running"}

WorkInv ==
    /\ StatusIsHonest /\ NothingDone /\ OutcomeInHand /\ FailuresWarn /\ FindingsAreReal
    /\ NothingDropped /\ StatusLate

(* What a step does to the work that is left, when it books nothing. *)
LEMMA WorkQuiet ==
    ASSUME WorkInv, UNCHANGED <<plan, controls, executions, findings, failures>>,
           warned => warned', pc \notin {"done"},
           status' \in {"pending", "running"},
           pc' \in Preparing => pc \in Preparing, pc' # "unrendered",
           pc' # "report" => outcome' = Failure, pc' = "report" => outcome'.ok,
           NothingDropped'
    PROVE  WorkInv'
<1>1. Selected' = Selected
  BY SelectionFixed
<1>2. StatusIsHonest'
  BY DEF StatusIsHonest
<1>3. NothingDone'
  BY DEF WorkInv, NothingDone
<1>4. OutcomeInHand'
  BY DEF OutcomeInHand, Failure
<1>5. FailuresWarn' /\ FindingsAreReal'
  BY DEF WorkInv, FailuresWarn, FindingsAreReal
<1>6. StatusLate'
  BY DEF StatusLate
<1> QED BY <1>2, <1>3, <1>4, <1>5, <1>6 DEF WorkInv

LEMMA SkippedFixed ==
    ASSUME plan' = plan
    PROVE  Skipped' = Skipped
BY DEF Skipped, Available, Variants

(* Before the end the status says nothing. *)
LEMMA Begins ==
    ASSUME WorkInv, Rejects \/ Starts \/ Selects
    PROVE  WorkInv'
<1>1. CASE Rejects \/ Starts
  <2>1. /\ UNCHANGED <<plan, controls, executions, findings, failures, warned, outcome>>
        /\ pc \in Preparing /\ pc' \in Preparing /\ status' \in {"pending", "running"}
    BY <1>1 DEF Rejects, Starts, books, cursor, Preparing, WorkInv, StatusLate
  <2>2. NothingDropped'
    BY <2>1 DEF NothingDropped
  <2> QED BY <2>1, <2>2, WorkQuiet DEF Preparing, WorkInv, OutcomeInHand
<1>2. CASE Selects
  <2>1. /\ UNCHANGED <<plan, controls, executions, findings, failures, outcome, status>>
        /\ pc = "select" /\ pc' = "loop" /\ todo' = Selected /\ warned' = (Skipped # {})
    BY <1>2 DEF Selects, books
  <2>2. failures = 0 /\ executions = <<>> /\ controls = [i \in DOMAIN Library |-> "none"]
    BY <2>1 DEF WorkInv, NothingDone, Preparing
  <2>3. Selected' = Selected /\ Skipped' = Skipped
    BY <2>1, SelectionFixed, SkippedFixed
  <2>4. NothingDropped'
    BY <2>1, <2>3 DEF NothingDropped, Awaits
  <2>5. StatusIsHonest' /\ StatusLate'
    BY <2>1 DEF WorkInv, StatusLate, StatusIsHonest
  <2>6. NothingDone' /\ OutcomeInHand'
    BY <2>1 DEF WorkInv, NothingDone, OutcomeInHand, Preparing, Failure
  <2>7. FailuresWarn' /\ FindingsAreReal'
    BY <2>1, <2>2 DEF WorkInv, FailuresWarn, FindingsAreReal
  <2> QED BY <2>4, <2>5, <2>6, <2>7 DEF WorkInv
<1> QED BY <1>1, <1>2

(* From the loop on, a step that books nothing keeps the status open. *)
LEMMA LoopOpen ==
    ASSUME WorkInv, pc \notin Preparing \cup {"done"}
    PROVE  status \in {"pending", "running"} /\ (~warned => Skipped = {})
BY DEF WorkInv, StatusLate, NothingDropped, Preparing

(* The loop is left with a warning, after a cancellation, or with nothing  *)
(* left to do.                                                             *)
LEMMA Leaves ==
    ASSUME WorkInv, NEW w \in BOOLEAN, LeavesLoop(w),
           pc \in {"loop", "control", "gate", "unrendered", "tail"},
           w \/ cancelled \/ (pc = "loop" /\ todo = {})
    PROVE  WorkInv'
<1>1. /\ UNCHANGED <<plan, cancelled, todo, item, controls, executions, findings, failures, outcome, status>>
      /\ pc' = "finish" /\ warned' = (warned \/ w)
  BY DEF LeavesLoop, books, cursor
<1>2. Selected' = Selected /\ Skipped' = Skipped
  BY <1>1, SelectionFixed, SkippedFixed
<1>3. \A m \in Selected : Completed(m.case, m.payload)' = Completed(m.case, m.payload)
  BY <1>1 DEF Completed
<1>4. NothingDropped'
  <2>1. SUFFICES ASSUME ~warned, ~w PROVE NothingDropped'
    BY <1>1 DEF NothingDropped
  <2>2. /\ Skipped = {}
        /\ cancelled \/ \A m \in Selected : Completed(m.case, m.payload)
    BY <2>1 DEF WorkInv, NothingDropped, Preparing, Awaits, Pending, Handling
  <2> QED BY <1>1, <1>2, <1>3, <2>2 DEF NothingDropped, Awaits, Pending, Handling
<1>5. status \in {"pending", "running"}
  BY LoopOpen DEF Preparing
<1> QED BY <1>1, <1>4, <1>5, WorkQuiet DEF WorkInv, OutcomeInHand, Preparing

(* A step inside of the loop that books nothing keeps every payload: the   *)
(* one in hand stays in hand until it is booked.                           *)
LEMMA Continues ==
    ASSUME WorkInv, UNCHANGED <<plan, cancelled, controls, executions, findings, failures, status>>,
           warned' = warned,
           pc \notin Preparing \cup {"finish", "done"},
           pc' \notin Preparing \cup {"unrendered", "finish", "done"},
           \A m \in Selected : Awaits(m) => Awaits(m)',
           pc' # "report" => outcome' = Failure, pc' = "report" => outcome'.ok
    PROVE  WorkInv'
<1>1. Selected' = Selected /\ Skipped' = Skipped
  BY SelectionFixed, SkippedFixed
<1>2. \A m \in Selected : Completed(m.case, m.payload)' = Completed(m.case, m.payload)
  BY DEF Completed
<1>3. NothingDropped'
  BY <1>1, <1>2 DEF WorkInv, NothingDropped
<1> QED BY <1>3, LoopOpen, WorkQuiet

(* A failure to render is counted and has its warning. *)
LEMMA RenderFails ==
    ASSUME IInv, WorkInv, ControlUnrendered \/ AttackUnrendered
    PROVE  WorkInv'
<1>1. /\ UNCHANGED <<plan, executions, findings, outcome, status>>
      /\ failures' = failures + 1 /\ warned' = TRUE
      /\ pc \in {"control", "gate"} /\ pc' \in {"gate", "unrendered"}
  BY DEF ControlUnrendered, AttackUnrendered, GateOpen, CountsFailure, books, cursor
<1>2. failures \in Nat
  BY DEF IInv, TypeOK, RunTypeOK
<1>3. status \in {"pending", "running"}
  BY <1>1, LoopOpen DEF Preparing
<1>4. StatusIsHonest' /\ StatusLate'
  BY <1>1, <1>3 DEF StatusIsHonest, StatusLate
<1>5. NothingDone' /\ NothingDropped'
  BY <1>1 DEF NothingDone, NothingDropped, Preparing
<1>6. OutcomeInHand'
  BY <1>1 DEF WorkInv, OutcomeInHand, Failure
<1>7. FailuresWarn' /\ FindingsAreReal'
  BY <1>1, <1>2 DEF WorkInv, FailuresWarn, FindingsAreReal
<1> QED BY <1>4, <1>5, <1>6, <1>7 DEF WorkInv

(* A payload leaves the hand when its execution is booked: it completed,   *)
(* or there is a warning.                                                  *)
LEMMA BookedWork ==
    ASSUME IInv, WorkInv, Books
    PROVE  WorkInv'
<1> DEFINE L == Len(executions)
<1>1. /\ UNCHANGED <<plan, cancelled, todo, item, kind, status>>
      /\ pc \in {"report", "book"}
      /\ pc' = IF kind = "control" THEN "gate" ELSE IF StopsHere THEN "finish" ELSE "tail"
      /\ failures' = IF outcome.ok THEN failures ELSE failures + 1
      /\ warned' = (warned \/ ~outcome.ok \/ StopsHere)
      /\ findings' = IF Finding THEN findings \cup {item} ELSE findings
      /\ controls' = IF kind = "attack" THEN controls
                     ELSE [controls EXCEPT ![item.case] = IF outcome.ok THEN "observed" ELSE "missing"]
      /\ outcome' = Failure
  BY DEF Books
<1>2. /\ \A n \in DOMAIN executions : n \in DOMAIN executions' /\ executions'[n] = executions[n]
      /\ \A n \in DOMAIN executions' : n \in DOMAIN executions \/ n = L + 1
      /\ L + 1 \in DOMAIN executions' /\ executions'[L + 1] = Execution
  BY Booked
<1>3. /\ failures \in Nat /\ outcome.ok \in BOOLEAN /\ kind \in {"control", "attack"}
      /\ controls \in [DOMAIN Library -> {"none", "observed", "missing"}]
      /\ warned \in BOOLEAN
  BY DEF IInv, TypeOK, RunTypeOK, Kinds
<1>4. /\ Execution.case = item.case /\ Execution.ok = outcome.ok
      /\ Execution.payload = IF kind = "control" THEN 0 ELSE item.payload
  BY DEF Execution, Invocation
<1>5. status \in {"pending", "running"}
  BY <1>1, LoopOpen DEF Preparing
<1> HIDE DEF L
<1>6. StatusIsHonest' /\ StatusLate'
  BY <1>1, <1>5 DEF StatusIsHonest, StatusLate, Preparing
<1>7. NothingDone' /\ OutcomeInHand'
  BY <1>1, <1>3 DEF NothingDone, OutcomeInHand, Preparing, Failure
<1>8. FailuresWarn'
  <2>1. \A n \in DOMAIN executions' : ~executions'[n].ok => failures' > 0
    BY <1>1, <1>2, <1>3, <1>4 DEF WorkInv, FailuresWarn
  <2>2. failures' > 0 => warned'
    BY <1>1, <1>3 DEF WorkInv, FailuresWarn
  <2>3. \A c \in DOMAIN Library : controls'[c] = "missing" => controls[c] = "missing" \/ ~outcome.ok
    BY <1>1, <1>3
  <2> QED BY <1>1, <2>1, <2>2, <2>3 DEF WorkInv, FailuresWarn
<1>9. FindingsAreReal'
  <2>1. CASE Finding
    <3>1. outcome.ok
      BY <1>1, <2>1 DEF Finding, WorkInv, OutcomeInHand, Failure
    <3> QED BY <1>2, <1>4, <3>1 DEF FindingsAreReal
  <2>2. CASE ~Finding
    BY <1>1, <1>2, <2>2 DEF WorkInv, FindingsAreReal
  <2> QED BY <2>1, <2>2
<1>10. NothingDropped'
  <2>1. Selected' = Selected /\ Skipped' = Skipped
    BY <1>1, SelectionFixed, SkippedFixed
  <2>2. SUFFICES ASSUME ~warned, outcome.ok, ~StopsHere PROVE NothingDropped'
    BY <1>1 DEF NothingDropped
  <2>3. /\ Skipped = {}
        /\ \A m \in Selected : m \in todo \/ m = item \/ Completed(m.case, m.payload)
    BY <1>1, <2>2 DEF WorkInv, NothingDropped, Preparing, Awaits
  <2>4. \A m \in Selected : Completed(m.case, m.payload) => Completed(m.case, m.payload)'
    BY <1>2 DEF Completed
  <2>5. kind = "attack" => Completed(item.case, item.payload)'
    BY <1>1, <1>2, <1>4, <2>2 DEF Completed
  <2> QED BY <1>1, <1>3, <2>1, <2>3, <2>4, <2>5 DEF NothingDropped, Awaits, Pending, Handling
<1> QED BY <1>6, <1>7, <1>8, <1>9, <1>10 DEF WorkInv

(* The status is settled on what there is to say of the whole run.         *)
LEMMA Settles ==
    ASSUME IInv, ControlsInv, WorkInv, Finishes
    PROVE  WorkInv'
<1>1. /\ UNCHANGED <<plan, controls, executions, findings, failures, warned, outcome>>
      /\ pc = "finish" /\ pc' = "done" /\ status' = FinalStatus
  BY DEF Finishes, books, cursor
<1>2. Selected' = Selected /\ Skipped' = Skipped
  BY <1>1, SelectionFixed, SkippedFixed
<1>3. StatusIsHonest'
  <2>1. CASE status' = "completed"
    <3>1. ~cancelled /\ ~warned /\ failures = 0
      <4>1. failures \in Nat
        BY DEF IInv, TypeOK, RunTypeOK
      <4> QED BY <1>1, <2>1, <4>1 DEF FinalStatus
    <3>2. Skipped = {} /\ \A m \in Selected : Completed(m.case, m.payload)
      BY <1>1, <3>1 DEF WorkInv, NothingDropped, Preparing, Awaits, Pending, Handling
    <3>3. \A m \in Selected : Controlled(m.case) => Completed(m.case, 0)
      <4> SUFFICES ASSUME NEW m \in Selected, Controlled(m.case)
                   PROVE  Completed(m.case, 0)
        OBVIOUS
      <4>1. m.case \in DOMAIN Library
        BY SelectedInLibrary
      <4>2. controls[m.case] # "none"
        BY <3>2 DEF Completed, ControlsInv, Untouched
      <4>3. controls[m.case] # "missing"
        BY <3>1, <4>1 DEF WorkInv, FailuresWarn
      <4>4. controls[m.case] = "observed"
        BY <4>1, <4>2, <4>3 DEF IInv, TypeOK, RunTypeOK
      <4> QED BY <4>1, <4>4 DEF ControlsInv, RecordsAreReal
    <3>4. \A m \in Selected : /\ Completed(m.case, m.payload)' = Completed(m.case, m.payload)
                              /\ Completed(m.case, 0)' = Completed(m.case, 0)
      BY <1>1 DEF Completed
    <3> QED BY <1>1, <1>2, <2>1, <3>1, <3>2, <3>3, <3>4 DEF StatusIsHonest, Controlled
  <2>2. CASE status' = "failed"
    <3>1. AllFailed
      BY <1>1, <2>2 DEF FinalStatus
    <3>2. PICK n \in DOMAIN executions : ~executions[n].ok
      <4>1. executions \in Seq(Executions) /\ executions # <<>>
        BY <3>1 DEF AllFailed, IInv, TypeOK, RunTypeOK
      <4>2. 1 \in DOMAIN executions
        BY <4>1
      <4> QED BY <3>1, <4>2 DEF AllFailed
    <3>3. failures > 0 /\ findings = {}
      BY <3>1, <3>2 DEF WorkInv, FailuresWarn, FindingsAreReal, AllFailed
    <3> QED BY <1>1, <2>2, <3>3 DEF StatusIsHonest
  <2>3. CASE status' \notin {"completed", "failed"}
    BY <2>3 DEF StatusIsHonest
  <2> QED BY <2>1, <2>2, <2>3
<1>4. NothingDone' /\ OutcomeInHand' /\ StatusLate' /\ NothingDropped'
  BY <1>1 DEF WorkInv, NothingDone, OutcomeInHand, StatusLate, NothingDropped, Preparing, Failure
<1>5. FailuresWarn' /\ FindingsAreReal'
  BY <1>1 DEF WorkInv, FailuresWarn, FindingsAreReal
<1> QED BY <1>3, <1>4, <1>5 DEF WorkInv

(* Around the run: a cancellation only takes effect later. *)
LEMMA Surroundings ==
    ASSUME WorkInv, Cancels \/ Tick \/ AuthorizationExpires \/ UNCHANGED vars
    PROVE  WorkInv'
<1>1. /\ UNCHANGED <<plan, pc, todo, item, outcome, controls, executions, findings, failures, warned,
                     status>>
      /\ cancelled => cancelled'
  BY DEF Cancels, Tick, AuthorizationExpires, vars, runVars, books, cursor
<1>2. Selected' = Selected /\ Skipped' = Skipped
  BY <1>1, SelectionFixed, SkippedFixed
<1>3. \A m \in Selected : /\ Completed(m.case, m.payload)' = Completed(m.case, m.payload)
                          /\ Completed(m.case, 0)' = Completed(m.case, 0)
  BY <1>1 DEF Completed
<1>4. StatusIsHonest'
  BY <1>1, <1>2, <1>3 DEF WorkInv, StatusIsHonest, Controlled
<1>5. NothingDone' /\ OutcomeInHand' /\ StatusLate'
  BY <1>1 DEF WorkInv, NothingDone, OutcomeInHand, StatusLate, Failure
<1>6. FailuresWarn' /\ FindingsAreReal'
  BY <1>1 DEF WorkInv, FailuresWarn, FindingsAreReal
<1>7. NothingDropped'
  BY <1>1, <1>2, <1>3 DEF WorkInv, NothingDropped, Awaits
<1> QED BY <1>4, <1>5, <1>6, <1>7 DEF WorkInv

LEMMA WorkStep == IInv /\ ControlsInv /\ WorkInv /\ [Next]_vars => WorkInv'
<1> SUFFICES ASSUME IInv, ControlsInv, WorkInv, [Next]_vars PROVE WorkInv'
  OBVIOUS
<1> USE DEF Preparing, Awaits, Pending, Handling
<1>1. CASE Rejects \/ Starts \/ Selects
  BY <1>1, Begins
<1>2. CASE LoopEnds \/ ControlTooDear \/ GateCloses
  BY <1>2, Leaves DEF LoopEnds, ControlTooDear, GateCloses
<1>3. CASE AfterUnrendered \/ AfterAttack
  <2>1. CASE LeavesLoop(TRUE)
    BY <1>3, <2>1, Leaves DEF AfterUnrendered, AfterAttack
  <2>2. CASE ~LeavesLoop(TRUE)
    <3>1. /\ pc \in {"unrendered", "tail"} /\ pc' = "loop"
          /\ UNCHANGED <<plan, cancelled, todo, item, outcome, controls, executions, findings,
                         failures, warned, status>>
      BY <1>3, <2>2 DEF AfterUnrendered, AfterAttack, books, cursor
    <3>2. CASE pc = "tail"
      BY <3>1, <3>2, Continues DEF WorkInv, OutcomeInHand
    <3>3. CASE pc = "unrendered"
      <4>1. warned
        BY <3>3 DEF WorkInv, FailuresWarn
      <4>2. NothingDropped'
        BY <3>1, <4>1 DEF NothingDropped
      <4> QED BY <3>1, <3>3, <4>2, LoopOpen, WorkQuiet DEF WorkInv, OutcomeInHand
    <3> QED BY <3>1, <3>2, <3>3
  <2> QED BY <2>1, <2>2
<1>4. CASE TakesPayload
  <2>1. PICK m \in todo : item' = m /\ todo' = todo \ {m}
    BY <1>4 DEF TakesPayload
  <2>2. /\ pc = "loop" /\ pc' = "control"
        /\ UNCHANGED <<plan, cancelled, outcome, controls, executions, findings, failures, warned,
                       status>>
    BY <1>4 DEF TakesPayload, books
  <2> QED BY <2>1, <2>2, Continues DEF WorkInv, OutcomeInHand
<1>5. CASE \/ WithoutControl \/ StartsControl \/ StartsAttack \/ PrepareFails \/ Prepares \/ Flies
           \/ FlightFails \/ Judges
  <2>1. /\ pc \in Pending /\ pc' \in Pending /\ pc' # "unrendered"
        /\ UNCHANGED <<plan, cancelled, todo, item, controls, executions, findings, failures,
                       warned, status>>
    BY <1>5 DEF WithoutControl, StartsControl, StartsAttack, GateOpen, PrepareFails, Prepares, Flies,
       FlightFails, Judges, Fails, runVars, books, cursor
  <2>2. (pc' # "report" => outcome' = Failure) /\ (pc' = "report" => outcome'.ok)
    BY <1>5 DEF WithoutControl, StartsControl, StartsAttack, GateOpen, PrepareFails, Prepares, Flies,
       FlightFails, Judges, Fails, runVars, cursor, WorkInv, OutcomeInHand
  <2> QED BY <2>1, <2>2, Continues
<1>6. CASE ControlUnrendered \/ AttackUnrendered
  BY <1>6, RenderFails
<1>7. CASE Books
  BY <1>7, BookedWork
<1>8. CASE Finishes
  BY <1>8, Settles
<1>9. CASE Cancels \/ Tick \/ AuthorizationExpires \/ UNCHANGED vars
  BY <1>9, Surroundings
<1> QED BY <1>1, <1>2, <1>3, <1>4, <1>5, <1>6, <1>7, <1>8, <1>9 DEF Next, Runs

LEMMA WorkInvariance == Spec => []WorkInv
<1>1. Init => WorkInv
  <2> SUFFICES ASSUME Init PROVE WorkInv
    OBVIOUS
  <2> QED BY DEF Init, WorkInv, StatusIsHonest, NothingDone, OutcomeInHand, FailuresWarn,
             FindingsAreReal, NothingDropped, StatusLate, Preparing
<1> QED BY <1>1, WorkStep, Invariance, ControlsInvariance, PTL DEF Spec

(* A run reported as completed skipped no case, failed nowhere, and had an *)
(* answer to every selected payload and every control; one reported as     *)
(* failed has no findings.                                                 *)
THEOREM StatusHonest == Spec => []StatusIsHonest
<1>1. WorkInv => StatusIsHonest
  BY DEF WorkInv
<1> QED BY <1>1, WorkInvariance, PTL

-------------------------------------------------------------------------------
(* The books. *)

Successes == {n \in DOMAIN executions : executions[n].ok}

CompletedIsCharged ==
    /\ Cardinality(Successes) <= used
    /\ (pc = "flight" /\ phase \in {"resting", "answered"}) \/ pc = "report" =>
           Cardinality(Successes) < used

ChargedWasSent ==
    /\ used <= Cardinality(Ids)
    /\ Registered => used <= Cardinality(Ids \ {issued})
    /\ phase = "waiting" => issued \in Ids

TargetBudgetKept ==
    /\ used <= MaxRequests /\ failed <= MaxFailures /\ used + failed <= issued
    /\ Registered => used < MaxRequests /\ failed < MaxFailures /\ used + failed < issued

Attacked == {m \in Selected : Executed(m.case, m.payload)}

ControlledCases == {m.case : m \in {o \in Selected : Controlled(o.case)}}

ControlsRun == {c \in ControlledCases : Executed(c, 0)}

RequestsCounted == requests <= Cardinality(Attacked) + Cardinality(ControlsRun)

AttackedOnce ==
    /\ todo \cap Attacked = {}
    /\ pc \in Pending => item \notin Attacked /\ item \notin todo

BooksInv ==
    /\ CompletedIsCharged /\ ChargedWasSent /\ TargetBudgetKept /\ RequestsCounted /\ AttackedOnce

(* The image of a finite set is finite. *)
LEMMA ImagesFinite ==
    ASSUME NEW S, IsFiniteSet(S), NEW T, NEW f \in [S -> T],
           \A t \in T : \E s \in S : f[s] = t
    PROVE  IsFiniteSet(T)
<1>1. f \in Surjection(S, T)
  BY DEF Surjection, Range
<1> QED BY <1>1, FS_Surjection

(* A plan selects finitely many payloads. *)
LEMMA SelectedFinite == IsFiniteSet(Selected)
<1> DEFINE Chosens == {k \in DOMAIN Library : Chosen(k)}
           Of(i) == {[case |-> i, payload |-> j] : j \in Variants(Library[i])}
           Parts == {Of(i) : i \in Chosens}
<1>1. IsFiniteSet(Chosens)
  <2>1. DOMAIN Library = 1..Len(Library) /\ Len(Library) \in Nat
    BY LibraryAssumption
  <2>2. IsFiniteSet(DOMAIN Library)
    BY <2>1, FS_Interval
  <2> QED BY <2>2, FS_Subset
<1>2. ASSUME NEW i \in DOMAIN Library PROVE IsFiniteSet(Of(i))
  <2>1. Library[i].payloads \in Seq(Payloads)
    <3>1. Library[i] \in Cases
      BY LibraryAssumption
    <3> QED BY <3>1 DEF Cases
  <2>2. /\ DOMAIN Library[i].payloads = 1..Len(Library[i].payloads)
        /\ Len(Library[i].payloads) \in Nat
    BY <2>1
  <2>3. IsFiniteSet(DOMAIN Library[i].payloads)
    BY <2>2, FS_Interval
  <2>4. Variants(Library[i]) \in SUBSET DOMAIN Library[i].payloads
    BY DEF Variants
  <2>5. IsFiniteSet(Variants(Library[i]))
    BY <2>3, <2>4, FS_Subset
  <2> DEFINE f == [j \in Variants(Library[i]) |-> [case |-> i, payload |-> j]]
  <2>6. f \in [Variants(Library[i]) -> Of(i)]
    OBVIOUS
  <2>7. \A t \in Of(i) : \E j \in Variants(Library[i]) : f[j] = t
    OBVIOUS
  <2> HIDE DEF f, Of
  <2> QED BY <2>5, <2>6, <2>7, ImagesFinite
<1>3. IsFiniteSet(Parts)
  <2> DEFINE g == [i \in Chosens |-> Of(i)]
  <2>1. g \in [Chosens -> Parts]
    OBVIOUS
  <2>2. \A t \in Parts : \E i \in Chosens : g[i] = t
    OBVIOUS
  <2> HIDE DEF g, Of, Parts, Chosens
  <2> QED BY <1>1, <2>1, <2>2, ImagesFinite
<1>4. \A T \in Parts : IsFiniteSet(T)
  BY <1>2
<1>5. Selected = UNION Parts
  BY DEF Selected
<1> QED BY <1>3, <1>4, <1>5, FS_UNION

(* What was executed is a part of what was selected. *)
LEMMA BooksFinite ==
    /\ IsFiniteSet(Attacked) /\ IsFiniteSet(ControlsRun)
    /\ Cardinality(Attacked) \in Nat /\ Cardinality(ControlsRun) \in Nat
    /\ Cardinality(Attacked) + Cardinality(ControlsRun) <= Planned /\ Planned \in Nat
<1>1. IsFiniteSet(Selected) /\ Attacked \in SUBSET Selected
  BY SelectedFinite DEF Attacked
<1>2. ControlledCases \in SUBSET DOMAIN Library /\ ControlsRun \in SUBSET ControlledCases
  BY SelectedInLibrary DEF ControlledCases, ControlsRun
<1>3. IsFiniteSet(ControlledCases)
  <2>1. DOMAIN Library = 1..Len(Library) /\ Len(Library) \in Nat
    BY LibraryAssumption
  <2>2. IsFiniteSet(DOMAIN Library)
    BY <2>1, FS_Interval
  <2> QED BY <1>2, <2>2, FS_Subset
<1>4. IsFiniteSet(Attacked) /\ Cardinality(Attacked) <= Cardinality(Selected)
  BY <1>1, FS_Subset
<1>5. IsFiniteSet(ControlsRun) /\ Cardinality(ControlsRun) <= Cardinality(ControlledCases)
  BY <1>2, <1>3, FS_Subset
<1>6. /\ Cardinality(Attacked) \in Nat /\ Cardinality(ControlsRun) \in Nat
      /\ Cardinality(Selected) \in Nat /\ Cardinality(ControlledCases) \in Nat
  BY <1>1, <1>3, <1>4, <1>5, FS_CardinalityType
<1>7. Planned = Cardinality(Selected) + Cardinality(ControlledCases)
  BY DEF Planned, ControlledCases
<1> QED BY <1>4, <1>5, <1>6, <1>7

(* One success more, or none. *)
LEMMA SuccessesBooked ==
    ASSUME IInv, Books
    PROVE  /\ IsFiniteSet(Successes) /\ Cardinality(Successes) \in Nat
           /\ Cardinality(Successes)' <= Cardinality(Successes) + (IF outcome.ok THEN 1 ELSE 0)
           /\ Cardinality(Successes)' \in Nat
<1>1. /\ \A n \in DOMAIN executions : n \in DOMAIN executions' /\ executions'[n] = executions[n]
      /\ \A n \in DOMAIN executions' : n \in DOMAIN executions \/ n = Len(executions) + 1
      /\ Len(executions) + 1 \in DOMAIN executions'
      /\ executions'[Len(executions) + 1].ok = outcome.ok
  BY Booked DEF Execution
<1>2. IsFiniteSet(Successes)
  <2>1. DOMAIN executions = 1..Len(executions) /\ Len(executions) \in Nat
    BY Booked
  <2>2. IsFiniteSet(DOMAIN executions)
    BY <2>1, FS_Interval
  <2>3. Successes \in SUBSET DOMAIN executions
    BY DEF Successes
  <2> QED BY <2>2, <2>3, FS_Subset
<1>3. Successes' = IF outcome.ok THEN Successes \cup {Len(executions) + 1} ELSE Successes
  BY <1>1 DEF Successes
<1>4. Cardinality(Successes) \in Nat
  BY <1>2, FS_CardinalityType
<1>5. Cardinality(Successes') <= Cardinality(Successes) + (IF outcome.ok THEN 1 ELSE 0)
      /\ Cardinality(Successes') \in Nat
  <2>1. Cardinality(Successes \cup {Len(executions) + 1}) \in
            {Cardinality(Successes), Cardinality(Successes) + 1}
    BY <1>2, FS_AddElement
  <2> QED BY <1>3, <1>4, <2>1
<1> QED BY <1>2, <1>4, <1>5

(* The ids that were sent are those of issued invocations. *)
LEMMA IdsFinite ==
    ASSUME IInv
    PROVE  /\ IsFiniteSet(Ids) /\ Cardinality(Ids) \in Nat /\ Ids \subseteq 1..issued
           /\ IsFiniteSet(Ids \ {issued})
           /\ Cardinality(Ids \ {issued}) = IF issued \in Ids THEN Cardinality(Ids) - 1
                                            ELSE Cardinality(Ids)
<1>1. issued \in Nat
  BY DEF IInv, TypeOK, TargetTypeOK
<1>2. Ids \subseteq 1..issued
  BY <1>1 DEF IInv, TypeOK, SentWasIssued, Ids, Requests
<1>3. IsFiniteSet(1..issued)
  BY <1>1, FS_Interval
<1>4. IsFiniteSet(Ids) /\ Cardinality(Ids) \in Nat
  BY <1>2, <1>3, FS_Subset, FS_CardinalityType
<1> QED BY <1>2, <1>4, FS_RemoveElement

(* The books of the adapter, in a step that leaves it alone. *)
LEMMA TargetBooksFixed ==
    ASSUME ChargedWasSent, TargetBudgetKept,
           UNCHANGED <<used, failed, issued, phase, sent>>
    PROVE  ChargedWasSent' /\ TargetBudgetKept'
BY DEF ChargedWasSent, TargetBudgetKept, Ids, Registered

(* An invocation that ends is no longer registered. *)
LEMMA TargetBooksCollected ==
    ASSUME ChargedWasSent, TargetBudgetKept, Collected
    PROVE  ChargedWasSent' /\ TargetBudgetKept'
BY DEF ChargedWasSent, TargetBudgetKept, Ids, Registered, Collected

(* A prepared invocation has room in the adapter's budget, and an id that  *)
(* was never sent.                                                         *)
LEMMA TargetBooksPrepared ==
    ASSUME IInv, ChargedWasSent, TargetBudgetKept, Prepares
    PROVE  ChargedWasSent' /\ TargetBudgetKept'
<1>1. /\ issued' = issued + 1 /\ phase' \in {"failed", "sending"}
      /\ UNCHANGED <<used, failed, sent>> /\ ~BudgetExhausted
  BY DEF Prepares, Admit, Refused
<1>2. issued \in Nat /\ used \in Nat /\ failed \in Nat /\ MaxRequests \in Nat /\ MaxFailures \in Nat
  BY BudgetAssumption DEF IInv, TypeOK, TargetTypeOK
<1>3. Ids' = Ids /\ issued' \notin Ids
  BY <1>1, <1>2, IdsFinite DEF Ids
<1>4. Ids' \ {issued'} = Ids
  BY <1>3
<1>5. ChargedWasSent'
  BY <1>1, <1>3, <1>4 DEF ChargedWasSent
<1>6. TargetBudgetKept'
  BY <1>1, <1>2 DEF TargetBudgetKept, BudgetExhausted
<1> QED BY <1>5, <1>6

(* A step of the adapter charges what was sent, once.                      *)
LEMMA TargetBooksFly ==
    ASSUME IInv, ChargedWasSent, TargetBudgetKept, TargetStep(Invocation)
    PROVE  ChargedWasSent' /\ TargetBudgetKept'
<1>1. issued \in Nat /\ used \in Nat /\ failed \in Nat /\ MaxRequests \in Nat /\ MaxFailures \in Nat
  BY BudgetAssumption DEF IInv, TypeOK, TargetTypeOK
<1>2. /\ IsFiniteSet(Ids) /\ Cardinality(Ids) \in Nat
      /\ Cardinality(Ids \ {issued}) = IF issued \in Ids THEN Cardinality(Ids) - 1
                                       ELSE Cardinality(Ids)
  BY IdsFinite
<1>3. CASE SendsRequest(Invocation)
  <2>1. /\ phase = "sending" /\ phase' = "waiting" /\ UNCHANGED <<used, failed, issued>>
        /\ \E r : r.id = issued /\ sent' = sent \cup {r}
    BY <1>3 DEF SendsRequest
  <2>2. Ids' = Ids \cup {issued}
    BY <2>1 DEF Ids
  <2>3. Ids' \ {issued'} = Ids \ {issued}
    BY <2>1, <2>2
  <2>4. Cardinality(Ids') = IF issued \in Ids THEN Cardinality(Ids) ELSE Cardinality(Ids) + 1
    BY <1>2, <2>2, FS_AddElement
  <2>5. ChargedWasSent'
    <3>1. used <= Cardinality(Ids \ {issued})
      BY <2>1 DEF ChargedWasSent, Registered
    <3>2. used <= Cardinality(Ids')
      BY <1>1, <1>2, <2>4, <3>1
    <3> QED BY <2>1, <2>2, <2>3, <3>1, <3>2 DEF ChargedWasSent
  <2>6. TargetBudgetKept'
    BY <2>1 DEF TargetBudgetKept, Registered
  <2> QED BY <2>5, <2>6
<1>4. CASE Redirects \/ Rests
  BY <1>4 DEF Redirects, Rests, ChargedWasSent, TargetBudgetKept, Registered, Ids
<1>5. CASE Answers
  <2>1. /\ phase = "waiting" /\ phase' \in {"resting", "answered"} /\ used' = used + 1
        /\ UNCHANGED <<failed, issued, sent>>
    BY <1>5 DEF Answers
  <2>2. Ids' = Ids
    BY <2>1 DEF Ids
  <2>3. used + 1 <= Cardinality(Ids)
    BY <1>1, <1>2, <2>1 DEF ChargedWasSent, Registered
  <2>4. ChargedWasSent'
    BY <2>1, <2>2, <2>3 DEF ChargedWasSent, Registered
  <2>5. TargetBudgetKept'
    BY <1>1, <2>1 DEF TargetBudgetKept, Registered
  <2> QED BY <2>4, <2>5
<1>6. CASE Errs
  <2>1. /\ phase \in {"sending", "waiting"} /\ phase' = "failed" /\ failed' = failed + 1
        /\ UNCHANGED <<used, issued, sent>>
    BY <1>6 DEF Errs, Registered
  <2> QED BY <1>1, <2>1 DEF ChargedWasSent, TargetBudgetKept, Registered, Ids
<1>7. CASE Breaks \/ Interrupted
  BY <1>7 DEF Breaks, Interrupted, ChargedWasSent, TargetBudgetKept, Registered, Ids
<1> QED BY <1>3, <1>4, <1>5, <1>6, <1>7 DEF TargetStep

(* Nothing of the runner's own books changes.                              *)
LEMMA RunnerBooksFixed ==
    ASSUME BooksInv, UNCHANGED <<plan, requests, executions>>,
           ChargedWasSent', TargetBudgetKept', CompletedIsCharged',
           todo' \subseteq todo \/ executions = <<>>,
           pc' \in Pending => \/ pc \in Pending /\ item' = item
                              \/ item' \in todo,
           pc' \in Pending => item' \notin todo'
    PROVE  BooksInv'
<1>1. Selected' = Selected
  BY SelectionFixed
<1>2. Attacked' = Attacked
  BY <1>1 DEF Attacked, Executed
<1>3. ControlsRun' = ControlsRun
  <2>1. ControlledCases' = ControlledCases
    BY <1>1 DEF ControlledCases, Controlled
  <2> QED BY <2>1 DEF ControlsRun, Executed
<1>4. RequestsCounted'
  BY <1>2, <1>3 DEF BooksInv, RequestsCounted
<1>5. executions = <<>> => Attacked = {}
  BY DEF Attacked, Executed
<1>6. AttackedOnce'
  BY <1>2, <1>5 DEF BooksInv, AttackedOnce
<1> QED BY <1>4, <1>6 DEF BooksInv

(* A booked request is the first of its payload, or of its control. *)
LEMMA RequestsBooked ==
    ASSUME IInv, ControlsInv, BooksInv, Books
    PROVE  RequestsCounted' /\ AttackedOnce'
<1> DEFINE L == Len(executions)
<1>1. /\ pc \in {"report", "book"} /\ UNCHANGED <<plan, todo, item, kind>>
      /\ pc' = IF kind = "control" THEN "gate" ELSE IF StopsHere THEN "finish" ELSE "tail"
      /\ requests' = requests + 1
  BY DEF Books
<1>2. /\ \A n \in DOMAIN executions : n \in DOMAIN executions' /\ executions'[n] = executions[n]
      /\ \A n \in DOMAIN executions' : n \in DOMAIN executions \/ n = L + 1
      /\ L + 1 \in DOMAIN executions' /\ executions'[L + 1] = Execution
      /\ item \in Selected /\ item.case \in DOMAIN Library /\ item.payload \in Nat \ {0}
  BY Booked
<1>3. /\ Execution.case = item.case
      /\ Execution.payload = IF kind = "control" THEN 0 ELSE item.payload
      /\ kind \in {"control", "attack"} /\ requests \in Nat
  BY DEF Execution, Invocation, IInv, TypeOK, RunTypeOK, Kinds
<1>4. Selected' = Selected /\ ControlledCases' = ControlledCases
  BY <1>1, SelectionFixed DEF ControlledCases, Controlled
<1> HIDE DEF L
<1>5. \A c, p : Executed(c, p)' <=> Executed(c, p) \/ (c = Execution.case /\ p = Execution.payload)
  BY <1>2 DEF Executed
<1>6. /\ IsFiniteSet(Attacked) /\ IsFiniteSet(ControlsRun)
      /\ Cardinality(Attacked) \in Nat /\ Cardinality(ControlsRun) \in Nat
  BY BooksFinite
<1>7. CASE kind = "control"
  <2>1. /\ Controlled(item.case) /\ ~Executed(item.case, 0)
    BY <1>1, <1>7 DEF ControlsInv, ControlInHand, Executing, NeedsControl, Untouched, Executed
  <2>2. item.case \in ControlledCases /\ item.case \notin ControlsRun
    BY <1>2, <2>1 DEF ControlledCases, ControlsRun
  <2>3. ControlsRun' = ControlsRun \cup {item.case}
    BY <1>3, <1>4, <1>5, <1>7, <2>2 DEF ControlsRun
  <2>4. Attacked' = Attacked
    <3>1. \A m \in Selected : m.payload # 0
      BY SelectedInLibrary
    <3> QED BY <1>3, <1>4, <1>5, <1>7, <3>1 DEF Attacked
  <2>5. Cardinality(ControlsRun') = Cardinality(ControlsRun) + 1
    BY <1>6, <2>2, <2>3, FS_AddElement
  <2>6. RequestsCounted'
    BY <1>1, <1>3, <1>6, <2>4, <2>5 DEF BooksInv, RequestsCounted
  <2>7. AttackedOnce'
    BY <1>1, <2>4 DEF BooksInv, AttackedOnce, Pending, Handling
  <2> QED BY <2>6, <2>7
<1>8. CASE kind = "attack"
  <2>1. item \notin Attacked /\ item \notin todo
    BY <1>1 DEF BooksInv, AttackedOnce, Pending, Handling
  <2>2. Attacked' = Attacked \cup {item}
    <3>1. \A m \in Selected : m.case = item.case /\ m.payload = item.payload => m = item
      <4>1. \A m \in Selected : m \in [case : DOMAIN Library, payload : Nat]
        BY SelectedInLibrary DEF Items
      <4> QED BY <1>2, <4>1
    <3> QED BY <1>2, <1>3, <1>4, <1>5, <1>8, <3>1 DEF Attacked
  <2>3. ControlsRun' = ControlsRun
    BY <1>2, <1>3, <1>4, <1>5, <1>8 DEF ControlsRun
  <2>4. Cardinality(Attacked') = Cardinality(Attacked) + 1
    BY <1>6, <2>1, <2>2, FS_AddElement
  <2>5. RequestsCounted'
    BY <1>1, <1>3, <1>6, <2>3, <2>4 DEF BooksInv, RequestsCounted
  <2>6. AttackedOnce'
    BY <1>1, <1>8, <2>1, <2>2 DEF BooksInv, AttackedOnce, Pending, Handling
  <2> QED BY <2>5, <2>6
<1> QED BY <1>3, <1>7, <1>8

(* An answer that was charged and is not booked yet stays so. *)
LEMMA ChargesFixed ==
    ASSUME CompletedIsCharged, UNCHANGED <<executions, used>>,
           (pc' = "flight" /\ phase' \in {"resting", "answered"}) \/ pc' = "report" =>
               (pc = "flight" /\ phase \in {"resting", "answered"}) \/ pc = "report"
    PROVE  CompletedIsCharged'
BY DEF CompletedIsCharged, Successes

(* The answer is charged before it can be judged. *)
LEMMA ChargesFly ==
    ASSUME IInv, CompletedIsCharged, Flies
    PROVE  CompletedIsCharged'
<1>1. pc = "flight" /\ UNCHANGED <<pc, executions>> /\ TargetStep(Invocation)
  BY DEF Flies, runVars, books
<1>2. CASE Answers
  <2>1. used' = used + 1 /\ used \in Nat
    BY <1>2 DEF Answers, IInv, TypeOK, TargetTypeOK
  <2>2. Successes' = Successes
    BY <1>1 DEF Successes
  <2>3. Cardinality(Successes) \in Nat
    <3>1. DOMAIN executions = 1..Len(executions) /\ Len(executions) \in Nat
      BY DEF IInv, TypeOK, RunTypeOK
    <3>2. IsFiniteSet(DOMAIN executions)
      BY <3>1, FS_Interval
    <3>3. Successes \in SUBSET DOMAIN executions
      BY DEF Successes
    <3> QED BY <3>2, <3>3, FS_Subset, FS_CardinalityType
  <2> QED BY <2>1, <2>2, <2>3 DEF CompletedIsCharged
<1>3. CASE ~Answers
  <2>1. UNCHANGED used /\ (phase' \in {"resting", "answered"} => phase = "resting")
    BY <1>1, <1>3 DEF TargetStep, SendsRequest, Redirects, Rests, Errs, Breaks, Interrupted
  <2> QED BY <1>1, <2>1, ChargesFixed
<1> QED BY <1>2, <1>3

LEMMA BooksInvStep == IInv /\ ControlsInv /\ WorkInv /\ BooksInv /\ [Next]_vars => BooksInv'
<1> SUFFICES ASSUME IInv, ControlsInv, WorkInv, BooksInv, [Next]_vars PROVE BooksInv'
  OBVIOUS
<1>1. CompletedIsCharged /\ ChargedWasSent /\ TargetBudgetKept
  BY DEF BooksInv
<1>2. CASE \/ Rejects \/ Starts \/ LoopEnds \/ ControlTooDear \/ GateCloses \/ AfterUnrendered
           \/ AfterAttack \/ Finishes
  <2>1. /\ UNCHANGED <<plan, requests, executions, todo, targetVars>>
        /\ pc' \notin {"control", "gate", "unrendered", "prepare", "flight", "report", "book"}
    BY <1>2 DEF Rejects, Starts, LoopEnds, ControlTooDear, GateCloses, AfterUnrendered, AfterAttack,
       Finishes, LeavesLoop, books, cursor
  <2>2. UNCHANGED <<used, failed, issued, phase, sent>>
    BY <2>1 DEF targetVars, flightVars
  <2>3. CompletedIsCharged'
    BY <1>1, <2>1, <2>2, ChargesFixed
  <2> QED BY <1>1, <2>1, <2>2, <2>3, TargetBooksFixed, RunnerBooksFixed DEF Pending, Handling
<1>3. CASE Selects \/ TakesPayload
  <2>1. /\ UNCHANGED <<plan, requests, executions, targetVars>>
        /\ pc' \in {"loop", "control"}
    BY <1>3 DEF Selects, TakesPayload, books
  <2>2. /\ Selects => pc' = "loop" /\ executions = <<>>
        /\ TakesPayload => item' \in todo /\ item' \notin todo' /\ todo' \subseteq todo
    BY DEF Selects, TakesPayload, WorkInv, NothingDone, Preparing
  <2>3. UNCHANGED <<used, failed, issued, phase, sent>>
    BY <2>1 DEF targetVars, flightVars
  <2>4. CompletedIsCharged'
    BY <1>1, <2>1, <2>3, ChargesFixed
  <2> QED BY <1>1, <1>3, <2>1, <2>2, <2>3, <2>4, TargetBooksFixed, RunnerBooksFixed
          DEF Pending, Handling
<1>4. CASE \/ WithoutControl \/ ControlUnrendered \/ StartsControl \/ AttackUnrendered
           \/ StartsAttack \/ PrepareFails
  <2>1. /\ UNCHANGED <<plan, requests, executions, todo, item, targetVars>>
        /\ pc \in Pending /\ pc' \in {"gate", "unrendered", "prepare", "book"}
    BY <1>4 DEF WithoutControl, ControlUnrendered, StartsControl, AttackUnrendered, StartsAttack,
       PrepareFails, GateOpen, Fails, CountsFailure, books, cursor, Pending, Handling
  <2>2. UNCHANGED <<used, failed, issued, phase, sent>>
    BY <2>1 DEF targetVars, flightVars
  <2>3. CompletedIsCharged'
    BY <1>1, <2>1, <2>2, ChargesFixed
  <2>4. item' \notin todo'
    BY <2>1 DEF BooksInv, AttackedOnce
  <2> QED BY <1>1, <2>1, <2>2, <2>3, <2>4, TargetBooksFixed, RunnerBooksFixed
<1>5. CASE Prepares \/ Flies \/ FlightFails \/ Judges
  <2>1. /\ UNCHANGED <<plan, requests, executions, todo, item>> /\ pc \in Pending
    BY <1>5 DEF Prepares, Flies, FlightFails, Judges, runVars, books, cursor, Pending, Handling
  <2>2. ChargedWasSent' /\ TargetBudgetKept'
    BY <1>1, <1>5, TargetBooksPrepared, TargetBooksCollected, TargetBooksFly
    DEF Flies, FlightFails, Judges
  <2>3. CASE ~Flies
    <3>1. /\ UNCHANGED used
          /\ pc' = "flight" => phase' \in {"sending", "failed"}
          /\ pc' = "report" => pc = "flight" /\ phase = "answered"
      BY <1>5, <2>3 DEF Prepares, FlightFails, Judges, Fails, Admit, Collected
    <3> QED BY <1>1, <2>1, <2>2, <3>1, ChargesFixed, RunnerBooksFixed DEF BooksInv, AttackedOnce
  <2>4. CASE Flies
    <3>1. CompletedIsCharged'
      BY <1>1, <2>4, ChargesFly
    <3> QED BY <2>1, <2>2, <3>1, RunnerBooksFixed DEF BooksInv, AttackedOnce
  <2> QED BY <2>3, <2>4
<1>6. CASE Books
  <2>1. UNCHANGED <<used, failed, issued, phase, sent>> /\ pc' \in {"gate", "finish", "tail"}
    BY <1>6 DEF Books, targetVars, flightVars
  <2>2. ChargedWasSent' /\ TargetBudgetKept'
    BY <1>1, <2>1, TargetBooksFixed
  <2>3. CompletedIsCharged'
    <3>1. used \in Nat /\ (outcome.ok => pc = "report")
      BY DEF IInv, TypeOK, TargetTypeOK, WorkInv, OutcomeInHand, Failure
    <3>2. Cardinality(Successes') <= used
      BY <1>1, <1>6, <3>1, SuccessesBooked DEF CompletedIsCharged
    <3> QED BY <2>1, <3>2 DEF CompletedIsCharged
  <2> QED BY <1>6, <2>2, <2>3, RequestsBooked DEF BooksInv
<1>7. CASE Cancels \/ Tick \/ AuthorizationExpires \/ UNCHANGED vars
  <2>1. UNCHANGED <<plan, requests, executions, todo, item, pc, used, failed, issued, phase, sent>>
    BY <1>7 DEF Cancels, Revoke, Tick, AuthorizationExpires, Expires, vars, runVars, books, cursor,
       targetVars, flightVars
  <2>2. CompletedIsCharged'
    BY <1>1, <2>1, ChargesFixed
  <2> QED BY <1>1, <2>1, <2>2, TargetBooksFixed, RunnerBooksFixed DEF BooksInv, AttackedOnce
<1> QED BY <1>2, <1>3, <1>4, <1>5, <1>6, <1>7 DEF Next, Runs

LEMMA BooksInvariance == Spec => []BooksInv
<1>1. Init => BooksInv
  <2> SUFFICES ASSUME Init PROVE BooksInv
    OBVIOUS
  <2>1. Successes = {} /\ Ids = {} /\ Cardinality({}) = 0
    BY FS_EmptySet DEF Init, TargetInit, Successes, Ids
  <2>2. CompletedIsCharged /\ ChargedWasSent
    BY <2>1 DEF Init, TargetInit, CompletedIsCharged, ChargedWasSent, Registered
  <2>3. TargetBudgetKept
    BY BudgetAssumption DEF Init, TargetInit, TargetBudgetKept, Registered
  <2>4. RequestsCounted
    BY BooksFinite DEF Init, RequestsCounted
  <2>5. AttackedOnce
    BY DEF Init, AttackedOnce, Pending, Handling
  <2> QED BY <2>2, <2>3, <2>4, <2>5 DEF BooksInv
<1> QED BY <1>1, BooksInvStep, Invariance, ControlsInvariance, WorkInvariance, PTL DEF Spec

(* The runner's books and the adapter's agree, whatever fails and when:    *)
(* nothing completed is free, nothing is charged that was not sent, and    *)
(* no request is booked for a payload or a control a second time.          *)
THEOREM BooksBalance == Spec => []BooksAgree
<1>1. IInv /\ BooksInv => BooksAgree
  <2> SUFFICES ASSUME IInv, BooksInv PROVE BooksAgree
    OBVIOUS
  <2>1. requests <= Planned
    <3>1. requests \in Nat
      BY DEF IInv, TypeOK, RunTypeOK
    <3> QED BY <3>1, BooksFinite DEF BooksInv, RequestsCounted
  <2>2. Cardinality(Successes) <= used /\ used <= Cardinality(Ids)
    BY DEF BooksInv, CompletedIsCharged, ChargedWasSent
  <2> QED BY <2>1, <2>2
          DEF BooksAgree, BooksInv, TargetBudgetKept, Successes, IInv, InvocationsBooked
<1> QED BY <1>1, Invariance, BooksInvariance, PTL
===============================================================================
