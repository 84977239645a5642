-------------------------------- MODULE Target --------------------------------
(***************************************************************************)
(* GenericRestTargetAdapter: one invocation at a time of a live target     *)
(* over HTTP, with its own authorization check and TargetBudget.           *)
(*                                                                         *)
(* An invocation goes out as one request, and as another one for every     *)
(* redirect that is followed.  It is interrupted by cancel(), which        *)
(* cancels the asyncio task that awaits it: CancelledError is raised at    *)
(* that await, also when the answer or the timeout came at the same time,  *)
(* so an interrupted invocation takes no other step than Interrupted.      *)
(*                                                                         *)
(* The caller looks at phase: "answered" and "failed" end an invocation.   *)
(***************************************************************************)
EXTENDS Naturals, FiniteSets

CONSTANTS
    MaxRequests,     \* the smaller of budget.max_requests and maximum_requests
    MaxFailures,     \* budget.max_failures
    MaxRedirects,    \* max_redirects; 0 when allow_redirects is off
    Pauses           \* delay_seconds is not 0

ASSUME BudgetAssumption ==
    /\ MaxRequests \in Nat /\ MaxFailures \in Nat /\ MaxRedirects \in Nat
    /\ Pauses \in BOOLEAN

VARIABLES
    authorized,      \* the authorization is given and has not expired
    used, failed,    \* requests_used and failures of the TargetBudget
    issued,          \* _invocation_sequence; also the id of the last invocation
    dropped,         \* _cancelled: ids of cancelled invocations
    phase,           \* where invoke is
    hops,            \* redirect_count
    interrupted,     \* the task has been cancelled and not yet run again
    sent             \* history: the requests that went out

flightVars == <<phase, hops, interrupted>>
targetVars == <<authorized, used, failed, issued, dropped, flightVars, sent>>

-------------------------------------------------------------------------------
(* elapsed_seconds stays 0: nothing updates it, so max_duration_seconds    *)
(* does not count.                                                         *)
BudgetExhausted == used + 1 > MaxRequests \/ failed >= MaxFailures

(* Mutant of Blocked: tool access is all that matters. *)
Blocked_ToolsOnly(case, payload, mode) ==
    mode = "destructive" \/ (mode = "safe" /\ case.tools /\ ~payload.canary)

(* What prepare_invocation refuses for its safety mode. *)
Blocked(case, payload, mode) ==
    \/ mode = "destructive"
    \/ mode = "safe" /\ (~payload.safe \/ ~case.safeDefault)
    \/ mode = "safe" /\ case.tools /\ ~payload.canary

Refused(case, payload, mode) ==
    ~authorized \/ BudgetExhausted \/ Blocked(case, payload, mode)

(* _tasks holds the caller's task. *)
Registered == phase \in {"sending", "waiting"}

(* prepare_invocation, and invoke up to its first await.  A caller that    *)
(* was cancelled in the meantime cancels the new invocation before it      *)
(* invokes it.                                                             *)
Admit(cancelFirst) ==
    /\ issued' = issued + 1
    /\ dropped' = IF cancelFirst THEN dropped \cup {issued + 1} ELSE dropped
    /\ phase' = IF issued + 1 \in dropped' THEN "failed" ELSE "sending"
    /\ hops' = 0 /\ interrupted' = FALSE
    /\ UNCHANGED <<authorized, used, failed, sent>>

(* cancel, for the ids it is called with. *)
Revoke(ids) ==
    /\ dropped' = dropped \cup ids
    /\ interrupted' = (interrupted \/ (Registered /\ issued \in ids))
    /\ UNCHANGED <<authorized, used, failed, issued, phase, hops, sent>>

-------------------------------------------------------------------------------
(* _send. *)

SendsRequest(m) ==
    /\ phase = "sending" /\ ~interrupted
    /\ sent' = sent \cup {[id |-> issued, case |-> m.case,
                           payload |-> m.payload, hop |-> hops]}
    /\ phase' = "waiting"
    /\ UNCHANGED <<authorized, used, failed, issued, dropped, hops, interrupted>>

(* Mutant of Redirects: redirect_count is not increased. *)
Redirects_Uncounted ==
    /\ phase = "waiting" /\ ~interrupted
    /\ hops < MaxRedirects
    /\ phase' = "sending"
    /\ UNCHANGED <<authorized, used, failed, issued, dropped, hops, interrupted, sent>>

(* Mutant of Redirects: off by one. *)
Redirects_OneMore ==
    /\ phase = "waiting" /\ ~interrupted
    /\ hops <= MaxRedirects
    /\ hops' = hops + 1
    /\ phase' = "sending"
    /\ UNCHANGED <<authorized, used, failed, issued, dropped, interrupted, sent>>

Redirects ==
    /\ phase = "waiting" /\ ~interrupted
    /\ hops < MaxRedirects
    /\ hops' = hops + 1
    /\ phase' = "sending"
    /\ UNCHANGED <<authorized, used, failed, issued, dropped, interrupted, sent>>

(* A response that normalizes.  Only these are charged to the budget. *)
Answers ==
    /\ phase = "waiting" /\ ~interrupted
    /\ used' = used + 1
    /\ phase' = IF Pauses THEN "resting" ELSE "answered"
    /\ hops' = 0
    /\ UNCHANGED <<authorized, failed, issued, dropped, interrupted, sent>>

(* delay_seconds pass.  The task is no longer registered. *)
Rests ==
    /\ phase = "resting"
    /\ phase' = "answered"
    /\ UNCHANGED <<authorized, used, failed, issued, dropped, hops, interrupted, sent>>

(* The timeout, or a TargetError: refused destination, transport error,    *)
(* bad status, unwanted redirect, oversized or malformed response.         *)
Errs ==
    /\ Registered /\ ~interrupted
    /\ failed' = failed + 1
    /\ phase' = "failed"
    /\ hops' = 0
    /\ UNCHANGED <<authorized, used, issued, dropped, interrupted, sent>>

(* Any other exception, of a resolver for instance, is not counted. *)
Breaks ==
    /\ Registered /\ ~interrupted
    /\ phase' = "failed"
    /\ hops' = 0
    /\ UNCHANGED <<authorized, used, failed, issued, dropped, interrupted, sent>>

(* CancelledError becomes a TargetError outside of the clause that counts. *)
Interrupted ==
    /\ Registered /\ interrupted
    /\ phase' = "failed" /\ interrupted' = FALSE
    /\ hops' = 0
    /\ UNCHANGED <<authorized, used, failed, issued, dropped, sent>>

(* invoke returns or raises. *)
Collected ==
    /\ phase' = "idle"
    /\ UNCHANGED <<authorized, used, failed, issued, dropped, hops, interrupted, sent>>

(* m is the test case and the payload of the invocation. *)
TargetStep(m) ==
    SendsRequest(m) \/ Redirects \/ Answers \/ Rests \/ Errs \/ Breaks \/ Interrupted

-------------------------------------------------------------------------------
(* The authorization expires. *)
Expires ==
    /\ authorized
    /\ authorized' = FALSE
    /\ UNCHANGED <<used, failed, issued, dropped, flightVars, sent>>

TargetInit ==
    /\ authorized \in BOOLEAN
    /\ used = 0 /\ failed = 0 /\ issued = 0 /\ dropped = {}
    /\ phase = "idle" /\ hops = 0 /\ interrupted = FALSE
    /\ sent = {}

TargetTypeOK ==
    /\ authorized \in BOOLEAN /\ used \in Nat /\ failed \in Nat /\ issued \in Nat
    /\ dropped \subseteq 1..issued
    /\ phase \in {"idle", "sending", "waiting", "resting", "answered", "failed"}
    /\ hops \in 0..MaxRedirects /\ interrupted \in BOOLEAN
===============================================================================
