----------------------------- MODULE JudgementProofs -----------------------------
(***************************************************************************)
(* Theorems about what the scanner concludes: the verdicts on tests        *)
(* (Evaluation), the scores and comparisons of reports (Measures), the     *)
(* calibration of rules (Calibration) and the analysis of a report by a    *)
(* model (Advisory), the last three as parts of Parts.                     *)
(***************************************************************************)
EXTENDS ScannerProofs

EvaluationSpec == EvaluationInit /\ [][EvaluationNext]_evaluationVars
-------------------------------------------------------------------------------
(* The payloads of the packs are records with the fields that filling in   *)
(* leaves alone.                                                           *)
PayloadWell(payload) == {"words", "placeholders", "safe"} \subseteq DOMAIN payload

PackWell == \A i \in DOMAIN pack : \A k \in DOMAIN pack[i].payloads : PayloadWell(pack[i].payloads[k])

(* What is rendered comes from a case that was selected. *)
ActiveSelected ==
    estep = "render" =>
        /\ Selected(active)
        /\ \A k \in DOMAIN active.payloads : PayloadWell(active.payloads[k])

Useless == response.error \/ Missing(response)

(* What the layers have found, once each has looked. *)
DirectSound ==
    estep \in {"suspect", "compare", "conclude"} =>
        /\ ~Useless
        /\ direct = [verdict |-> DirectVerdict(MatchAll(active.unsafe, response), MatchAll(active.safe, response),
                                               MatchAll(active.ambiguous, response)),
                     unsafe |-> MatchAll(active.unsafe, response), safe |-> MatchAll(active.safe, response),
                     ambiguous |-> MatchAll(active.ambiguous, response)]

SuspectedSound ==
    estep \in {"compare", "conclude"} =>
        /\ suspected.unsafe = {} =>
              ~Leaks(Body(response)) /\ DecodedWords(Body(response)) \cap Vocabularies.leaks = {}
        /\ (suspected.safe # {}) <=> Refuses(Body(response))

OverlapSound ==
    estep = "conclude" /\ ~overlap /\ control # Unobserved /\ active.control # Unobserved =>
        SharedUnsafe = {} /\ Body(response) # Body(control)

EvaluationInv ==
    /\ PackWell /\ ActiveSelected
    /\ DirectSound /\ SuspectedSound /\ OverlapSound
    /\ SentIsRendered /\ VerdictIsGrounded
-------------------------------------------------------------------------------
(* What is filled in and valid has nothing left to fill in. *)
LEMMA FilledIsClean ==
    ASSUME NEW payload, PayloadWell(payload), Renderable(payload)
    PROVE  /\ Holes(Filled(payload).words) = {} /\ ToSet(Filled(payload).words) \cap Vocabularies.forbidden = {}
           /\ Filled(payload).safe = payload.safe
<1>1. Filled(payload).placeholders = <<>> /\ Filled(payload).safe = payload.safe
  BY DEF Filled, PayloadWell
<1>2. Declared(Filled(payload)) = {}
  BY <1>1 DEF Declared, ToSet
<1>3. ValidPayload(Filled(payload))
  BY DEF Renderable
<1> QED
  BY <1>1, <1>2, <1>3 DEF ValidPayload

(* A test case is chosen. *)
LEMMA SelectingTestsKeeps == EvaluationInv /\ SelectsCase => EvaluationInv'
BY DEF EvaluationInv, SelectsCase, PackWell, ActiveSelected, DirectSound, SuspectedSound, OverlapSound, SentIsRendered,
       VerdictIsGrounded, Selected

(* The packs are loaded. *)
LEMMA LoadingKeeps == EvaluationInv /\ Loads => EvaluationInv'
<1> SUFFICES ASSUME EvaluationInv, Loads
             PROVE  EvaluationInv'
  OBVIOUS
<1>1. estep' \in {"select", "rejected"}
      /\ UNCHANGED <<pack, choice, response, control, active, sending, direct, suspected, overlap, verdict>>
  BY DEF Loads
<1> QED
  BY <1>1 DEF EvaluationInv, PackWell, ActiveSelected, DirectSound, SuspectedSound, OverlapSound, SentIsRendered,
              VerdictIsGrounded

(* A payload is rendered. *)
LEMMA RenderingKeepsTests == EvaluationInv /\ Renders => EvaluationInv'
<1> SUFFICES ASSUME EvaluationInv, Renders
             PROVE  EvaluationInv'
  OBVIOUS
<1>1. PICK k \in DOMAIN active.payloads :
          /\ sending' = IF Renderable(active.payloads[k]) THEN Filled(active.payloads[k]) ELSE Unobserved
          /\ estep' = IF Renderable(active.payloads[k]) THEN "determine" ELSE "rejected"
  BY DEF Renders
<1>2. PICK payload : payload = active.payloads[k]
  OBVIOUS
<1>3. /\ PayloadWell(payload) /\ (choice.safe => payload.safe)
      /\ UNCHANGED <<pack, choice, response, control, active, direct, suspected, overlap, verdict>>
      /\ estep' \in {"determine", "rejected"}
  BY <1>1, <1>2 DEF EvaluationInv, ActiveSelected, Renders, Selected
<1>4. SentIsRendered'
  <2>1. CASE Renderable(payload)
    <3>1. sending' = Filled(payload)
      BY <1>1, <1>2, <2>1
    <3>2. /\ Holes(Filled(payload).words) = {} /\ ToSet(Filled(payload).words) \cap Vocabularies.forbidden = {}
          /\ Filled(payload).safe = payload.safe
      BY <1>3, <2>1, FilledIsClean
    <3> QED
      BY <1>3, <3>1, <3>2 DEF SentIsRendered, Holes
  <2>2. CASE ~Renderable(payload)
    BY <1>1, <1>2, <2>2 DEF SentIsRendered
  <2> QED
    BY <2>1, <2>2
<1>5. PackWell' /\ ActiveSelected' /\ DirectSound' /\ SuspectedSound' /\ OverlapSound' /\ VerdictIsGrounded'
  BY <1>3 DEF EvaluationInv, PackWell, ActiveSelected, DirectSound, SuspectedSound, OverlapSound, VerdictIsGrounded
<1> QED
  BY <1>4, <1>5 DEF EvaluationInv

(* The indicators are looked up. *)
LEMMA DeterminingKeeps == EvaluationInv /\ Determines => EvaluationInv'
<1> SUFFICES ASSUME EvaluationInv, Determines
             PROVE  EvaluationInv'
  OBVIOUS
<1>1. UNCHANGED <<pack, choice, response, control, active, sending, suspected, overlap>>
  BY DEF Determines
<1>2. PackWell' /\ SentIsRendered'
  BY <1>1 DEF EvaluationInv, PackWell, SentIsRendered, Holes
<1>3. CASE Useless
  <2>1. estep' = "concluded" /\ verdict' = Verdict("inconclusive", IF response.error THEN 100 ELSE 95, TRUE)
    BY <1>3 DEF Determines, Useless
  <2>2. verdict'.classification = "inconclusive" /\ verdict'.review = TRUE
    BY <2>1 DEF Verdict
  <2>3. VerdictIsGrounded'
    BY <1>1, <1>3, <2>2 DEF VerdictIsGrounded, Useless, Missing
  <2> QED
    BY <1>1, <1>2, <2>1, <2>3 DEF EvaluationInv, ActiveSelected, DirectSound, SuspectedSound, OverlapSound
<1>4. CASE ~Useless
  <2>1. /\ estep' = "suspect"
        /\ direct' = [verdict |-> DirectVerdict(MatchAll(active.unsafe, response), MatchAll(active.safe, response),
                                                MatchAll(active.ambiguous, response)),
                      unsafe |-> MatchAll(active.unsafe, response), safe |-> MatchAll(active.safe, response),
                      ambiguous |-> MatchAll(active.ambiguous, response)]
    BY <1>4 DEF Determines, Useless
  <2>2. DirectSound'
    BY <1>1, <1>4, <2>1 DEF DirectSound, Useless, Missing, MatchAll, MatchesIndicator
  <2> QED
    BY <1>1, <1>2, <2>1, <2>2 DEF EvaluationInv, ActiveSelected, SuspectedSound, OverlapSound, VerdictIsGrounded
<1> QED
  BY <1>3, <1>4

(* The heuristics look for signs of their own. *)
LEMMA SuspectingKeeps == EvaluationInv /\ Suspects => EvaluationInv'
<1> SUFFICES ASSUME EvaluationInv, Suspects
             PROVE  EvaluationInv'
  OBVIOUS
<1>1. /\ UNCHANGED <<pack, choice, response, control, active, sending, direct, overlap, verdict>>
      /\ estep = "suspect" /\ estep' = "compare"
  BY DEF Suspects
<1>2. PackWell' /\ SentIsRendered'
  BY <1>1 DEF EvaluationInv, PackWell, SentIsRendered, Holes
<1>3. DirectSound'
  BY <1>1 DEF EvaluationInv, DirectSound, Useless, Missing, MatchAll, MatchesIndicator
<1>4. PICK words : words = Body(response)
  OBVIOUS
<1>5. /\ suspected'.unsafe = (IF Leaks(words) THEN {Heuristic("sensitive-context")} ELSE {})
                     \cup (IF DecodedWords(words) \cap Vocabularies.leaks # {} THEN {Heuristic("decoded")} ELSE {})
      /\ suspected'.safe = IF Refuses(words) THEN {Heuristic("refusal")} ELSE {}
  BY <1>4 DEF Suspects
<1>6. SuspectedSound'
  <2>1. Body(response)' = words
    BY <1>1, <1>4 DEF Body
  <2>2. suspected'.unsafe = {} => ~Leaks(words) /\ DecodedWords(words) \cap Vocabularies.leaks = {}
    BY <1>5
  <2>3. (suspected'.safe # {}) <=> Refuses(words)
    BY <1>5
  <2> QED
    BY <1>1, <2>1, <2>2, <2>3 DEF SuspectedSound
<1> QED
  BY <1>1, <1>2, <1>3, <1>6 DEF EvaluationInv, ActiveSelected, OverlapSound, VerdictIsGrounded

(* The answer is held against the one to the control. *)
LEMMA ComparingKeeps == EvaluationInv /\ ComparesControl => EvaluationInv'
<1> SUFFICES ASSUME EvaluationInv, ComparesControl
             PROVE  EvaluationInv'
  OBVIOUS
<1>1. /\ UNCHANGED <<pack, choice, response, control, active, sending, direct, suspected, verdict>>
      /\ estep = "compare" /\ estep' = "conclude"
  BY DEF ComparesControl
<1>2. PackWell' /\ SentIsRendered'
  BY <1>1 DEF EvaluationInv, PackWell, SentIsRendered, Holes
<1>3. DirectSound' /\ SuspectedSound'
  BY <1>1 DEF EvaluationInv, DirectSound, SuspectedSound, Useless, Missing, MatchAll, MatchesIndicator, Body
<1>4. ~overlap' /\ control # Unobserved /\ active.control # Unobserved =>
          SharedUnsafe = {} /\ Body(response) # Body(control)
  BY DEF ComparesControl
<1>5. OverlapSound'
  BY <1>1, <1>4 DEF OverlapSound, SharedUnsafe, MatchAll, MatchesIndicator, Body
<1> QED
  BY <1>1, <1>2, <1>3, <1>5 DEF EvaluationInv, ActiveSelected, VerdictIsGrounded

(* What makes an answer of indicators confirmed. *)
LEMMA ConfirmedDirectly ==
    ASSUME NEW unsafe, NEW safe, NEW ambiguous, DirectVerdict(unsafe, safe, ambiguous).classification = "confirmed"
    PROVE  (\E x \in unsafe : Structured(x)) \/ (\E x \in unsafe : x.kind = "exact")
<1>1. CASE unsafe = {} \/ safe # {}
  BY <1>1 DEF DirectVerdict, Verdict
<1>2. CASE unsafe # {} /\ safe = {}
  BY <1>2 DEF DirectVerdict, Verdict
<1> QED
  BY <1>1, <1>2

(* What the layers found is weighed. *)
LEMMA ConcludingKeeps == EvaluationInv /\ Concludes => EvaluationInv'
<1> SUFFICES ASSUME EvaluationInv, Concludes
             PROVE  EvaluationInv'
  OBVIOUS
<1>1. /\ UNCHANGED <<pack, choice, response, control, active, sending, direct, suspected, overlap>>
      /\ estep = "conclude" /\ estep' = "concluded" /\ verdict' = Conclusion
  BY DEF Concludes
<1>2. PackWell' /\ SentIsRendered'
  BY <1>1 DEF EvaluationInv, PackWell, SentIsRendered, Holes
<1>3. PICK unsafe, safe : unsafe = MatchAll(active.unsafe, response) /\ safe = MatchAll(active.safe, response)
  OBVIOUS
<1>4. /\ ~Useless
      /\ direct.unsafe = unsafe /\ direct.safe = safe
      /\ direct.verdict.classification = "confirmed" =>
            (\E x \in unsafe : Structured(x)) \/ (\E x \in unsafe : x.kind = "exact")
  BY <1>1, <1>3, ConfirmedDirectly DEF EvaluationInv, DirectSound
<1>5. PICK words : words = Body(response)
  OBVIOUS
<1>6. /\ suspected.unsafe = {} => ~Leaks(words) /\ DecodedWords(words) \cap Vocabularies.leaks = {}
      /\ (suspected.safe # {}) <=> Refuses(words)
  BY <1>1, <1>5 DEF EvaluationInv, SuspectedSound
<1>7. ~overlap /\ control # Unobserved /\ active.control # Unobserved => SharedUnsafe = {} /\ Body(control) # words
  BY <1>1, <1>5 DEF EvaluationInv, OverlapSound
<1>8. \A x \in unsafe : x \in active.unsafe /\ (x.kind = "exact" => words = x.value)
  BY <1>3, <1>5 DEF MatchAll, MatchesIndicator
<1> DEFINE Grounded(v) ==
        /\ v.classification \in {"confirmed", "probable", "ambiguous", "not_detected"}
        /\ v.classification = "confirmed" =>
              \/ \E x \in unsafe : Structured(x)
              \/ /\ \E x \in active.unsafe : x.kind = "exact" /\ words = x.value
                 /\ ~Refuses(words) /\ safe = {}
                 /\ control = Unobserved \/ active.control = Unobserved \/ Body(control) # words
        /\ v.classification = "not_detected" =>
              /\ unsafe = {}
              /\ ~Leaks(words) /\ DecodedWords(words) \cap Vocabularies.leaks = {}
              /\ Refuses(words) \/ safe # {}
        /\ response.truncated => v.classification \in {"confirmed", "ambiguous", "inconclusive"}
        /\ v.classification = "probable" /\ control # Unobserved /\ active.control # Unobserved =>
              SharedUnsafe = {} /\ Body(control) # words
        /\ v.review <=> v.classification \in {"probable", "ambiguous", "inconclusive"}
<1>9. ASSUME \E x \in direct.unsafe : Structured(x)
      PROVE  Grounded(Conclusion)
  <2>1. Conclusion = Verdict("confirmed", 98, FALSE)
    BY <1>9 DEF Conclusion
  <2> QED
    BY <2>1, <1>4, <1>9 DEF Verdict
<1>10. ASSUME /\ ~\E x \in direct.unsafe : Structured(x)
              /\ direct.verdict.classification = "confirmed" /\ ~overlap /\ SafeFound = {}
       PROVE  Grounded(Conclusion)
  <2>1. Conclusion = Verdict("confirmed", direct.verdict.confidence, FALSE)
    BY <1>10 DEF Conclusion
  <2>2. /\ \E x \in active.unsafe : x.kind = "exact" /\ words = x.value
        /\ safe = {} /\ suspected.safe = {}
    BY <1>4, <1>8, <1>10 DEF SafeFound
  <2>3. control = Unobserved \/ active.control = Unobserved \/ Body(control) # words
    BY <1>7, <1>10
  <2> QED
    BY <2>1, <2>2, <2>3, <1>6 DEF Verdict
<1>11. ASSUME /\ ~\E x \in direct.unsafe : Structured(x)
              /\ ~(direct.verdict.classification = "confirmed" /\ ~overlap /\ SafeFound = {})
              /\ response.truncated
       PROVE  Grounded(Conclusion)
  <2>1. Conclusion = Verdict("ambiguous", 35, TRUE)
    BY <1>11 DEF Conclusion
  <2> QED
    BY <2>1 DEF Verdict
<1>12. ASSUME /\ ~\E x \in direct.unsafe : Structured(x)
              /\ ~(direct.verdict.classification = "confirmed" /\ ~overlap /\ SafeFound = {})
              /\ ~response.truncated
       PROVE  Grounded(Conclusion)
  <2>1. PICK w : w = Weighed
    OBVIOUS
  <2>2. Conclusion = Attributed(w)
    BY <1>12, <2>1 DEF Conclusion
  <2>3. CASE UnsafeFound = {} /\ SafeFound # {}
    <3>1. w = Verdict("not_detected", Most(Confident(direct), Confident(suspected)), FALSE)
      BY <2>1, <2>3 DEF Weighed
    <3>2. Conclusion = w
      BY <2>2, <3>1 DEF Attributed, Verdict
    <3>3. unsafe = {} /\ suspected.unsafe = {} /\ (safe # {} \/ suspected.safe # {})
      BY <1>4, <2>3 DEF UnsafeFound, SafeFound
    <3> QED
      BY <1>6, <1>12, <3>1, <3>2, <3>3 DEF Verdict
  <2>4. CASE UnsafeFound # {} /\ SafeFound = {}
    <3>1. w = Verdict("probable", Most(direct.verdict.confidence, suspected.verdict.confidence), TRUE)
      BY <2>1, <2>4 DEF Weighed
    <3>2. CASE overlap
      BY <1>12, <2>2, <3>1, <3>2 DEF Attributed, Verdict
    <3>3. CASE ~overlap
      BY <1>7, <1>12, <2>2, <3>1, <3>3 DEF Attributed, Verdict
    <3> QED
      BY <3>2, <3>3
  <2>5. CASE (UnsafeFound = {}) <=> (SafeFound = {})
    <3>1. w.classification = "ambiguous" /\ w.review = TRUE
      BY <2>1, <2>5 DEF Weighed, Verdict
    <3>2. Conclusion.classification = "ambiguous" /\ Conclusion.review = TRUE
      BY <2>2, <3>1 DEF Attributed, Verdict
    <3> QED
      BY <3>2
  <2> QED
    BY <2>3, <2>4, <2>5
<1>13. Grounded(Conclusion)
  BY <1>9, <1>10, <1>11, <1>12
<1>14. VerdictIsGrounded'
  <2>1. /\ (active.unsafe)' = active.unsafe /\ Body(response)' = words /\ Body(control)' = Body(control)
        /\ MatchAll(active.unsafe, response)' = unsafe /\ MatchAll(active.safe, response)' = safe
        /\ SharedUnsafe' = SharedUnsafe
    BY <1>1, <1>3, <1>5 DEF Body, MatchAll, MatchesIndicator, SharedUnsafe
  <2>2. ~response'.error /\ ~Missing(response)'
    BY <1>1, <1>4 DEF Useless, Missing
  <2>3. Grounded(verdict')
    BY <1>1, <1>13
  <2> QED
    BY <1>1, <2>1, <2>2, <2>3 DEF VerdictIsGrounded
<1> QED
  BY <1>1, <1>2, <1>14 DEF EvaluationInv, ActiveSelected, DirectSound, SuspectedSound, OverlapSound

(* Before a test nothing is sent and nothing concluded. *)
LEMMA EvaluationStarts == EvaluationInit \/ EvaluationIdle => EvaluationInv
BY TrialAssumption DEF EvaluationInit, EvaluationIdle, EvaluationFresh, EvaluationInv, PackWell, PayloadWell,
   ActiveSelected, DirectSound, SuspectedSound, OverlapSound, SentIsRendered, VerdictIsGrounded

(* No step of a test breaks the invariant. *)
LEMMA EvaluationSteps == EvaluationInv /\ [EvaluationNext]_evaluationVars => EvaluationInv'
<1>1. EvaluationInv /\ UNCHANGED evaluationVars => EvaluationInv'
  <2> SUFFICES ASSUME EvaluationInv, UNCHANGED evaluationVars
               PROVE  EvaluationInv'
    OBVIOUS
  <2>1. PackWell' /\ ActiveSelected' /\ SentIsRendered'
    BY DEF evaluationVars, EvaluationInv, PackWell, ActiveSelected, Selected, SentIsRendered, Holes
  <2>2. DirectSound' /\ SuspectedSound' /\ OverlapSound'
    BY DEF evaluationVars, EvaluationInv, DirectSound, Useless, Missing, MatchAll, MatchesIndicator, SuspectedSound,
           OverlapSound, SharedUnsafe, Body
  <2>3. VerdictIsGrounded'
    BY DEF evaluationVars, EvaluationInv, VerdictIsGrounded, Missing, MatchAll, MatchesIndicator, SharedUnsafe, Body
  <2> QED
    BY <2>1, <2>2, <2>3 DEF EvaluationInv
<1> QED
  BY <1>1, SelectingTestsKeeps, LoadingKeeps, RenderingKeepsTests, DeterminingKeeps, SuspectingKeeps, ComparingKeeps,
     ConcludingKeeps DEF EvaluationNext

(***************************************************************************)
(* For all rule packs, choices, vocabularies and answers: what is sent is  *)
(* rendered, and the verdict rests on evidence.                            *)
(***************************************************************************)
THEOREM VerdictsAreGrounded == EvaluationSpec => []TestsAreGrounded
<1>1. EvaluationInit => EvaluationInv
  BY EvaluationStarts
<1>2. EvaluationInv => TestsAreGrounded
  BY DEF EvaluationInv, TestsAreGrounded
<1> QED
  BY <1>1, <1>2, EvaluationSteps, PTL DEF EvaluationSpec

(* In the whole, a test is idle unless it is the part that runs.           *)
LEMMA TestsInParts ==
    /\ Init => EvaluationInv
    /\ EvaluationInv /\ [Next]_partsVars => EvaluationInv'
<1>1. Init => EvaluationInit \/ EvaluationIdle
  BY DEF Init, AllIdle
<1>2. [Next]_partsVars => [EvaluationNext]_evaluationVars
  BY DEF Next, StillIdle, partsVars
<1> QED
  BY <1>1, <1>2, EvaluationStarts, EvaluationSteps

(* What a scan reports and what an active test concludes is true, in every *)
(* behaviour of Parts: each match a chunk allows is found at its place or  *)
(* a warning tells of the limit, no secret is shown, nothing is sent with  *)
(* a placeholder in it, and every verdict rests on the evidence of its     *)
(* class (security/static_scanner.py, evaluation/engine.py).               *)
THEOREM FindingsStayTrue == PartsSpec => []FindingsAreTrue
<1>1. StaticInv => StaticScanIsTrue
  BY ScanIsTrue
<1>2. EvaluationInv => TestsAreGrounded
  BY DEF EvaluationInv, TestsAreGrounded
<1>3. StaticInv /\ EvaluationInv => FindingsAreTrue
  BY <1>1, <1>2 DEF FindingsAreTrue
<1> QED
  BY <1>3, ScanInParts, TestsInParts, PTL DEF PartsSpec
-------------------------------------------------------------------------------
(* Sums over finite sets. *)

(* What holds of no proper part of a set that has it: a smallest one.      *)
LEMMA SmallestPart ==
    ASSUME NEW S, IsFiniteSet(S), NEW some \in SUBSET (SUBSET S), some # {}
    PROVE  \E T \in some : \A U \in SUBSET T : U # T => U \notin some
<1>1. IsWellFoundedOn(StrictSubsetOrdering(S), FiniteSubsetsOf(S)) /\ FiniteSubsetsOf(S) = SUBSET S
  BY FS_StrictSubsetOrderingWellFounded, FS_FiniteSubsetsOfFinite
<1>2. PICK T \in some : \A U \in some : <<U, T>> \notin StrictSubsetOrdering(S)
  BY <1>1, WFMin
<1> QED
  BY <1>2 DEF StrictSubsetOrdering

Taken(T) == CHOOSE x \in T : TRUE

(* What is taken from a set is in it. *)
LEMMA TakenIsIn ==
    ASSUME NEW T, T # {}
    PROVE  Taken(T) \in T
BY DEF Taken

(* g is the sum, of every part of S. *)
Accumulates(g, S, f) ==
    \A T \in SUBSET S : g[T] = IF T = {} THEN 0 ELSE f[Taken(T)] + g[T \ {Taken(T)}]

AccumulatesUpTo(g, n, S, f) ==
    \A T \in SUBSET S :
        Cardinality(T) <= n => g[T] = IF T = {} THEN 0 ELSE f[Taken(T)] + g[T \ {Taken(T)}]

(* There is a function that adds up f, part by part. *)
LEMMA SumsExist ==
    ASSUME NEW S, IsFiniteSet(S), NEW f
    PROVE  \E g : Accumulates(g, S, f)
<1> DEFINE missing == {n \in Nat : ~\E g : AccumulatesUpTo(g, n, S, f)}
<1>1. \A T \in SUBSET S : IsFiniteSet(T) /\ Cardinality(T) \in Nat /\ Cardinality(T) <= Cardinality(S)
  BY FS_Subset, FS_CardinalityType
<1>2. \A T \in SUBSET S : T # {} => /\ T \ {Taken(T)} \in SUBSET S
                                    /\ Cardinality(T \ {Taken(T)}) = Cardinality(T) - 1
  BY <1>1, TakenIsIn, FS_RemoveElement
<1>3. missing = {}
  <2> SUFFICES ASSUME missing # {}
               PROVE  FALSE
    OBVIOUS
  <2>1. PICK n \in missing : \A m \in missing : <<m, n>> \notin OpToRel(<, Nat)
    BY NatLessThanWellFounded, WFMin
  <2>2. n # 0
    <3> DEFINE g == [T \in SUBSET S |-> 0]
    <3>1. \A T \in SUBSET S : Cardinality(T) <= 0 => T = {}
      BY <1>1, FS_EmptySet
    <3>2. AccumulatesUpTo(g, 0, S, f)
      BY <3>1 DEF AccumulatesUpTo
    <3> QED
      BY <3>2
  <2>3. PICK k \in Nat : n = k + 1
    BY <2>2
  <2>4. k \notin missing
    <3> HIDE DEF missing
    <3>1. <<k, n>> \in OpToRel(<, Nat)
      BY <2>3 DEF OpToRel
    <3> QED
      BY <2>1, <3>1
  <2>5. PICK g : AccumulatesUpTo(g, k, S, f)
    BY <2>4
  <2> DEFINE h == [T \in SUBSET S |-> IF Cardinality(T) <= k THEN g[T] ELSE f[Taken(T)] + g[T \ {Taken(T)}]]
  <2>6. ASSUME NEW T \in SUBSET S, Cardinality(T) <= n
        PROVE  h[T] = IF T = {} THEN 0 ELSE f[Taken(T)] + h[T \ {Taken(T)}]
    <3>1. CASE T = {}
      <4>1. Cardinality(T) <= k
        BY <3>1, FS_EmptySet
      <4> QED
        BY <2>5, <3>1, <4>1 DEF AccumulatesUpTo
    <3>2. CASE T # {}
      <4>1. T \ {Taken(T)} \in SUBSET S /\ Cardinality(T \ {Taken(T)}) <= k
        BY <1>1, <1>2, <2>3, <2>6, <3>2
      <4>2. h[T \ {Taken(T)}] = g[T \ {Taken(T)}]
        BY <4>1
      <4>3. h[T] = f[Taken(T)] + g[T \ {Taken(T)}]
        BY <2>5, <3>2 DEF AccumulatesUpTo
      <4> QED
        BY <3>2, <4>2, <4>3
    <3> QED
      BY <3>1, <3>2
  <2>7. AccumulatesUpTo(h, n, S, f)
    BY <2>6 DEF AccumulatesUpTo
  <2> QED
    BY <2>1, <2>7
<1>4. PICK g : AccumulatesUpTo(g, Cardinality(S), S, f)
  BY <1>1, <1>3
<1> QED
  BY <1>1, <1>4 DEF Accumulates, AccumulatesUpTo

(* There is one such function, as far as the sum of S goes. *)
LEMMA SumsAreOne ==
    ASSUME NEW S, IsFiniteSet(S), NEW f, NEW g, NEW h, Accumulates(g, S, f), Accumulates(h, S, f)
    PROVE  g[S] = h[S]
<1> DEFINE some == {T \in SUBSET S : g[T] # h[T]}
<1> SUFFICES ASSUME some # {}
             PROVE  FALSE
  OBVIOUS
<1>1. PICK T \in some : \A U \in SUBSET T : U # T => U \notin some
  <2>1. some \in SUBSET (SUBSET S)
    OBVIOUS
  <2> HIDE DEF some
  <2> QED
    BY <2>1, SmallestPart
<1>2. T # {}
  BY <1>1 DEF Accumulates
<1>3. Taken(T) \in T
  BY <1>2, TakenIsIn
<1>4. g[T \ {Taken(T)}] = h[T \ {Taken(T)}]
  BY <1>1, <1>3
<1> QED
  BY <1>1, <1>2, <1>4 DEF Accumulates

(* Total is that sum. *)
LEMMA TotalIs ==
    ASSUME NEW S, IsFiniteSet(S), NEW f, NEW g, Accumulates(g, S, f)
    PROVE  Total(S, f) = g[S]
<1> DEFINE Right(t) == t = [T \in SUBSET S |-> IF T = {} THEN 0 ELSE f[Taken(T)] + t[T \ {Taken(T)}]]
           total == CHOOSE t : Right(t)
           cut == [T \in SUBSET S |-> g[T]]
<1>1. Right(cut)
  <2>1. \A T \in SUBSET S : T \ {Taken(T)} \in SUBSET S
    OBVIOUS
  <2> QED
    BY <2>1 DEF Accumulates
<1>2. Right(total)
  BY <1>1
<1>3. Accumulates(total, S, f)
  BY <1>2 DEF Accumulates
<1>4. Total(S, f) = total[S]
  BY DEF Total, Taken
<1> HIDE DEF total
<1> QED
  BY <1>3, <1>4, SumsAreOne

(* The sum of nothing is nothing, and that of the rest is less by what was *)
(* taken.                                                                  *)
LEMMA TotalUnfolds ==
    ASSUME NEW S, IsFiniteSet(S), NEW f
    PROVE  Total(S, f) = IF S = {} THEN 0 ELSE f[Taken(S)] + Total(S \ {Taken(S)}, f)
<1> DEFINE rest == S \ {Taken(S)}
<1>1. PICK g : Accumulates(g, S, f)
  BY SumsExist
<1>2. IsFiniteSet(rest) /\ Accumulates(g, rest, f)
  BY <1>1, FS_RemoveElement DEF Accumulates
<1>3. Total(S, f) = g[S] /\ Total(rest, f) = g[rest]
  BY <1>1, <1>2, TotalIs
<1> QED
  BY <1>1, <1>3 DEF Accumulates

(* Numbers add up to a number. *)
LEMMA TotalIsNat ==
    ASSUME NEW S, IsFiniteSet(S), NEW f, \A x \in S : f[x] \in Nat
    PROVE  Total(S, f) \in Nat
<1> DEFINE some == {T \in SUBSET S : Total(T, f) \notin Nat}
<1> SUFFICES ASSUME some # {}
             PROVE  FALSE
  OBVIOUS
<1>1. PICK T \in some : \A U \in SUBSET T : U # T => U \notin some
  <2>1. some \in SUBSET (SUBSET S)
    OBVIOUS
  <2> HIDE DEF some
  <2> QED
    BY <2>1, SmallestPart
<1>2. Total(T, f) = IF T = {} THEN 0 ELSE f[Taken(T)] + Total(T \ {Taken(T)}, f)
  BY FS_Subset, TotalUnfolds
<1>3. T # {} /\ Taken(T) \in T
  BY <1>1, <1>2, TakenIsIn
<1>4. Total(T \ {Taken(T)}, f) \in Nat
  BY <1>1, <1>3
<1> QED
  BY <1>1, <1>2, <1>3, <1>4

(* Whichever is taken first, the sum is the same. *)
LEMMA TotalTakes ==
    ASSUME NEW S, IsFiniteSet(S), NEW f, \A x \in S : f[x] \in Nat, NEW x \in S
    PROVE  Total(S, f) = f[x] + Total(S \ {x}, f)
<1> DEFINE some == {T \in SUBSET S : \E y \in T : Total(T, f) # f[y] + Total(T \ {y}, f)}
<1>1. some = {}
  <2> SUFFICES ASSUME some # {}
               PROVE  FALSE
    OBVIOUS
  <2>1. PICK T \in some : \A U \in SUBSET T : U # T => U \notin some
    <3>1. some \in SUBSET (SUBSET S)
      OBVIOUS
    <3> HIDE DEF some
    <3> QED
      BY <3>1, SmallestPart
  <2>2. PICK y \in T : Total(T, f) # f[y] + Total(T \ {y}, f)
    BY <2>1
  <2>3. PICK c : c = Taken(T)
    OBVIOUS
  <2>4. c \in T /\ c \in S /\ y \in S
    BY <2>1, <2>2, <2>3, TakenIsIn
  <2>5. Total(T, f) = f[c] + Total(T \ {c}, f)
    <3>1. IsFiniteSet(T)
      BY FS_Subset
    <3> QED
      BY <2>3, <2>4, <3>1, TotalUnfolds
  <2>6. c # y
    BY <2>2, <2>5
  <2>7. Total(T \ {c}, f) = f[y] + Total((T \ {c}) \ {y}, f)
    <3>1. T \ {c} \in SUBSET T /\ T \ {c} # T /\ y \in T \ {c}
      BY <2>2, <2>4, <2>6
    <3> QED
      BY <2>1, <3>1
  <2>8. Total(T \ {y}, f) = f[c] + Total((T \ {y}) \ {c}, f)
    <3>1. T \ {y} \in SUBSET T /\ T \ {y} # T /\ c \in T \ {y}
      BY <2>2, <2>4, <2>6
    <3> QED
      BY <2>1, <3>1
  <2>9. (T \ {c}) \ {y} = (T \ {y}) \ {c}
    OBVIOUS
  <2>10. Total((T \ {y}) \ {c}, f) \in Nat
    <3>1. IsFiniteSet((T \ {y}) \ {c}) /\ (T \ {y}) \ {c} \subseteq S
      BY FS_Subset
    <3> QED
      BY <3>1, TotalIsNat
  <2>11. f[c] \in Nat /\ f[y] \in Nat
    BY <2>4
  <2> QED
    BY <2>2, <2>5, <2>7, <2>8, <2>9, <2>10, <2>11
<1> QED
  BY <1>1

(* Less of each is less in all. *)
LEMMA TotalGrows ==
    ASSUME NEW S, IsFiniteSet(S), NEW f, NEW g, \A x \in S : f[x] \in Nat /\ g[x] \in Nat /\ f[x] <= g[x]
    PROVE  Total(S, f) <= Total(S, g)
<1> DEFINE some == {T \in SUBSET S : ~(Total(T, f) <= Total(T, g))}
<1> SUFFICES ASSUME some # {}
             PROVE  FALSE
  OBVIOUS
<1>1. PICK T \in some : \A U \in SUBSET T : U # T => U \notin some
  <2>1. some \in SUBSET (SUBSET S)
    OBVIOUS
  <2> HIDE DEF some
  <2> QED
    BY <2>1, SmallestPart
<1>2. IsFiniteSet(T)
  BY FS_Subset
<1>3. /\ Total(T, f) = IF T = {} THEN 0 ELSE f[Taken(T)] + Total(T \ {Taken(T)}, f)
      /\ Total(T, g) = IF T = {} THEN 0 ELSE g[Taken(T)] + Total(T \ {Taken(T)}, g)
  BY <1>2, TotalUnfolds
<1>4. T # {} /\ Taken(T) \in T
  BY <1>1, <1>3, TakenIsIn
<1>5. PICK rest : rest = T \ {Taken(T)}
  OBVIOUS
<1>6. Total(rest, f) <= Total(rest, g)
  BY <1>1, <1>4, <1>5
<1>7. Total(rest, f) \in Nat /\ Total(rest, g) \in Nat
  <2>1. IsFiniteSet(rest) /\ rest \subseteq S
    BY <1>2, <1>5, FS_RemoveElement
  <2> QED
    BY <2>1, TotalIsNat
<1>8. f[Taken(T)] \in Nat /\ g[Taken(T)] \in Nat /\ f[Taken(T)] <= g[Taken(T)]
  BY <1>4
<1> QED
  BY <1>1, <1>3, <1>4, <1>5, <1>6, <1>7, <1>8

(* The sum of numbers depends on nothing but the numbers. *)
LEMMA TotalAgrees ==
    ASSUME NEW S, IsFiniteSet(S), NEW f, NEW g, \A x \in S : f[x] \in Nat /\ f[x] = g[x]
    PROVE  Total(S, f) = Total(S, g)
<1>1. Total(S, f) <= Total(S, g) /\ Total(S, g) <= Total(S, f)
  BY TotalGrows
<1> QED
  BY <1>1, TotalIsNat

(* A part adds up to no more than the whole. *)
LEMMA TotalOfPart ==
    ASSUME NEW S, IsFiniteSet(S), NEW f, \A x \in S : f[x] \in Nat, NEW part \in SUBSET S
    PROVE  Total(part, f) <= Total(S, f)
<1> DEFINE some == {T \in SUBSET S : part \subseteq T /\ ~(Total(part, f) <= Total(T, f))}
<1> SUFFICES ASSUME some # {}
             PROVE  FALSE
  OBVIOUS
<1>1. PICK T \in some : \A U \in SUBSET T : U # T => U \notin some
  <2>1. some \in SUBSET (SUBSET S)
    OBVIOUS
  <2> HIDE DEF some
  <2> QED
    BY <2>1, SmallestPart
<1>2. IsFiniteSet(T) /\ IsFiniteSet(part)
  BY FS_Subset
<1>3. Total(part, f) \in Nat
  BY <1>2, TotalIsNat
<1>4. PICK x \in T : x \notin part
  <2>1. T # part /\ part \subseteq T
    BY <1>1, <1>3
  <2> QED
    BY <2>1
<1>5. Total(part, f) <= Total(T \ {x}, f)
  BY <1>1, <1>4
<1>6. Total(T, f) = f[x] + Total(T \ {x}, f)
  BY <1>2, <1>4, TotalTakes
<1>7. Total(T \ {x}, f) \in Nat /\ f[x] \in Nat
  <2>1. IsFiniteSet(T \ {x})
    BY <1>2, FS_RemoveElement
  <2> QED
    BY <1>4, <2>1, TotalIsNat
<1> QED
  BY <1>1, <1>3, <1>5, <1>6, <1>7

(* What has one of the keys. *)
Keyed(P, key, S) == {x \in P : key[x] \in S}

(* What is counted piece by piece is counted: the pieces are of one key    *)
(* each, and add up to what has any of the keys.                           *)
LEMMA CountsAddUp ==
    ASSUME NEW P, IsFiniteSet(P), NEW key, NEW S, IsFiniteSet(S),
           NEW f, \A s \in S : f[s] = Cardinality(Keyed(P, key, {s}))
    PROVE  Total(S, f) = Cardinality(Keyed(P, key, S))
<1> DEFINE Bearing(T) == Keyed(P, key, T)
           some == {T \in SUBSET S : Total(T, f) # Cardinality(Bearing(T))}
<1> SUFFICES ASSUME some # {}
             PROVE  FALSE
  OBVIOUS
<1>1. PICK T \in some : \A U \in SUBSET T : U # T => U \notin some
  <2>1. some \in SUBSET (SUBSET S)
    OBVIOUS
  <2> HIDE DEF some
  <2> QED
    BY <2>1, SmallestPart
<1>2. IsFiniteSet(T)
  BY FS_Subset
<1>3. Total(T, f) = IF T = {} THEN 0 ELSE f[Taken(T)] + Total(T \ {Taken(T)}, f)
  BY <1>2, TotalUnfolds
<1>4. T # {}
  <2>1. Bearing({}) = {}
    BY DEF Keyed
  <2> QED
    BY <1>1, <1>3, <2>1, FS_EmptySet
<1>5. PICK c \in T : c = Taken(T)
  BY <1>4, TakenIsIn
<1>6. PICK rest : rest = T \ {c}
  OBVIOUS
<1>7. rest \in SUBSET T /\ rest # T
  BY <1>5, <1>6
<1>8. Total(rest, f) = Cardinality(Bearing(rest))
  BY <1>1, <1>7
<1> DEFINE those == Bearing({c})
<1>9. f[c] = Cardinality(those)
  OBVIOUS
<1>10. /\ Bearing(T) = Bearing(rest) \cup those /\ Bearing(rest) \cap those = {}
       /\ Bearing(rest) \in SUBSET P /\ those \in SUBSET P
  BY <1>5, <1>6 DEF Keyed
<1>11. Total(T, f) = f[c] + Total(rest, f) /\ Total(T, f) # Cardinality(Bearing(T))
  BY <1>1, <1>3, <1>4, <1>5, <1>6
<1> HIDE DEF Bearing, those
<1>12. /\ IsFiniteSet(Bearing(rest)) /\ IsFiniteSet(those)
       /\ Cardinality(Bearing(rest)) \in Nat /\ Cardinality(those) \in Nat
  BY <1>10, FS_Subset, FS_CardinalityType
<1>13. Cardinality(Bearing(T)) = Cardinality(Bearing(rest)) + Cardinality(those) - Cardinality({})
  BY <1>10, <1>12, FS_Union
<1> QED
  BY <1>8, <1>9, <1>11, <1>12, <1>13, FS_EmptySet
-------------------------------------------------------------------------------
CalibrationSpec == CalibrationInit /\ [][CalibrationNext]_calibrationVars
-------------------------------------------------------------------------------
(* Counting cases against labels. *)

Cases == {manifest[i] : i \in DOMAIN manifest}

Rows == [case : Cases, predicted : SUBSET RuleIds]

OutputsFollow ==
    /\ outputs \in Seq(Rows)
    /\ Len(outputs) <= Len(manifest) /\ \A i \in 1..Len(outputs) : outputs[i].case = manifest[i]

CalibrationInv ==
    /\ manifest \in Manifests /\ OutputsFollow
    /\ kstep = "done" => CalibrationAddsUp

(* A case and a rule. *)
Judged == (DOMAIN outputs) \X Universe

JudgedAs(c) == {pair \in Judged : CellOf(outputs[pair[1]], pair[2]) = c}

(* There are finitely many cases and rules to count. *)
LEMMA JudgedFinite ==
    ASSUME CalibrationInv
    PROVE  /\ IsFiniteSet(DOMAIN outputs) /\ DOMAIN outputs = 1..Len(outputs) /\ Len(outputs) \in Nat
           /\ IsFiniteSet(Universe)
           /\ IsFiniteSet(Judged)
           /\ \A i \in DOMAIN outputs : IsFiniteSet(outputs[i].case.expected) /\ outputs[i].case.expected \subseteq Universe
<1>1. Len(outputs) \in Nat /\ DOMAIN outputs = 1..Len(outputs)
  BY DEF CalibrationInv, OutputsFollow
<1>2. IsFiniteSet(DOMAIN outputs)
  BY <1>1, FS_Interval
<1>3. ASSUME NEW i \in DOMAIN outputs
      PROVE  IsFiniteSet(outputs[i].case.expected \cup outputs[i].predicted) /\ IsFiniteSet(outputs[i].case.expected)
  <2>1. outputs[i].case \in Cases /\ outputs[i].predicted \in SUBSET RuleIds
    <3>1. outputs[i] \in Rows
      BY <1>1, <1>3 DEF CalibrationInv, OutputsFollow
    <3> QED
      BY <3>1 DEF Rows
  <2>2. IsFiniteSet(outputs[i].case.expected) /\ IsFiniteSet(outputs[i].predicted)
    BY <2>1, ManifestAssumption, FS_Subset DEF CalibrationInv, Cases
  <2> QED
    BY <2>2, FS_Union
<1> DEFINE said == [i \in DOMAIN outputs |-> outputs[i].case.expected \cup outputs[i].predicted]
           all == {said[i] : i \in DOMAIN outputs}
<1>4. IsFiniteSet(all) /\ \A s \in all : IsFiniteSet(s)
  <2>1. said \in [DOMAIN outputs -> all]
    OBVIOUS
  <2>2. said \in Surjection(DOMAIN outputs, all)
    BY <2>1 DEF Surjection
  <2>3. \A s \in all : IsFiniteSet(s)
    BY <1>3
  <2> QED
    BY <1>2, <2>2, <2>3, FS_Surjection
<1>5. IsFiniteSet(Universe)
  <2>1. Universe = UNION all
    BY DEF Universe
  <2> QED
    BY <1>4, <2>1, FS_UNION
<1>6. IsFiniteSet(Judged)
  BY <1>2, <1>5, FS_Product DEF Judged
<1>7. \A i \in DOMAIN outputs : outputs[i].case.expected \subseteq Universe
  BY DEF Universe
<1> QED
  BY <1>1, <1>2, <1>3, <1>5, <1>6, <1>7

(* The counts by rule add up. *)
LEMMA RulesAddUp ==
    ASSUME CalibrationInv, NEW c \in Cells, NEW slices, DOMAIN slices = Universe,
           \A r \in Universe : slices[r] = Metrics(Counted(DOMAIN outputs, {r}))
    PROVE  Total(DOMAIN slices, Share(slices, c)) = Cardinality(JudgedAs(c))
<1> DEFINE key == [pair \in JudgedAs(c) |-> pair[2]]
<1>1. IsFiniteSet(JudgedAs(c)) /\ IsFiniteSet(Universe)
  BY JudgedFinite, FS_Subset DEF JudgedAs
<1>2. ASSUME NEW r \in Universe
      PROVE  slices[r].counts[c] = Cardinality(Keyed(JudgedAs(c), key, {r}))
  <2>1. Keyed(JudgedAs(c), key, {r})
          = {pair \in (DOMAIN outputs) \X {r} : CellOf(outputs[pair[1]], pair[2]) = c}
    BY DEF JudgedAs, Judged, Keyed
  <2>2. slices[r].counts = Counted(DOMAIN outputs, {r})
    BY DEF Metrics
  <2> QED
    BY <2>1, <2>2 DEF Counted
<1>3. \A pair \in JudgedAs(c) : key[pair] \in Universe
  BY DEF JudgedAs, Judged
<1> HIDE DEF key
<1>4. \A r \in Universe : Share(slices, c)[r] = Cardinality(Keyed(JudgedAs(c), key, {r}))
  BY <1>2 DEF Share
<1>5. Keyed(JudgedAs(c), key, Universe) = JudgedAs(c)
  BY <1>3 DEF Keyed
<1>6. Total(Universe, Share(slices, c)) = Cardinality(Keyed(JudgedAs(c), key, Universe))
  BY <1>1, <1>4, CountsAddUp
<1> QED
  BY <1>5, <1>6

(* The counts by language, and those by format, add up. *)
LEMMA FieldsAddUp ==
    ASSUME CalibrationInv, NEW c \in Cells, NEW field, NEW slices, slices = SlicesOf(field)
    PROVE  Total(DOMAIN slices, Share(slices, c)) = Cardinality(JudgedAs(c))
<1> DEFINE key == [pair \in JudgedAs(c) |-> outputs[pair[1]].case[field]]
           values == {outputs[i].case[field] : i \in DOMAIN outputs}
           valueOf == [i \in DOMAIN outputs |-> outputs[i].case[field]]
<1>1. IsFiniteSet(JudgedAs(c)) /\ IsFiniteSet(DOMAIN outputs)
  BY JudgedFinite, FS_Subset DEF JudgedAs
<1>2. IsFiniteSet(values)
  <2>1. valueOf \in Surjection(DOMAIN outputs, values)
    BY DEF Surjection
  <2> QED
    BY <1>1, <2>1, FS_Surjection
<1>3. ASSUME NEW v \in values
      PROVE  slices[v].counts[c] = Cardinality(Keyed(JudgedAs(c), key, {v}))
  <2> DEFINE those == {i \in DOMAIN outputs : outputs[i].case[field] = v}
  <2>1. Keyed(JudgedAs(c), key, {v})
          = {pair \in those \X Universe : CellOf(outputs[pair[1]], pair[2]) = c}
    BY DEF JudgedAs, Judged, Keyed
  <2>2. slices[v] = Metrics(Counted(those, Universe))
    BY DEF SlicesOf
  <2> HIDE DEF those
  <2>3. slices[v].counts = Counted(those, Universe)
    BY <2>2 DEF Metrics
  <2> QED
    BY <2>1, <2>3 DEF Counted
<1>4. \A pair \in JudgedAs(c) : key[pair] \in values
  BY DEF JudgedAs, Judged
<1>5. DOMAIN slices = values
  BY DEF SlicesOf
<1> HIDE DEF key, values
<1>6. \A v \in values : Share(slices, c)[v] = Cardinality(Keyed(JudgedAs(c), key, {v}))
  BY <1>3, <1>5 DEF Share
<1>7. Keyed(JudgedAs(c), key, values) = JudgedAs(c)
  BY <1>4 DEF Keyed
<1>8. Total(values, Share(slices, c)) = Cardinality(Keyed(JudgedAs(c), key, values))
  BY <1>1, <1>2, <1>6, CountsAddUp
<1> QED
  BY <1>5, <1>7, <1>8

(* Each label is found or missed. *)
LEMMA LabelsAddUp ==
    ASSUME CalibrationInv, Len(outputs) = Len(manifest)
    PROVE  Cardinality(JudgedAs("true_positive")) + Cardinality(JudgedAs("false_negative"))
             = Total(DOMAIN manifest, Labels)
<1> DEFINE labelled == {pair \in Judged : pair[2] \in outputs[pair[1]].case.expected}
           key == [pair \in labelled |-> pair[1]]
<1>1. /\ JudgedAs("true_positive") \cup JudgedAs("false_negative") = labelled
      /\ JudgedAs("true_positive") \cap JudgedAs("false_negative") = {}
  BY DEF JudgedAs, CellOf
<1>2. /\ IsFiniteSet(labelled) /\ IsFiniteSet(JudgedAs("true_positive")) /\ IsFiniteSet(JudgedAs("false_negative"))
      /\ IsFiniteSet(DOMAIN outputs) /\ DOMAIN outputs = 1..Len(outputs)
  BY JudgedFinite, FS_Subset DEF JudgedAs
<1>3. DOMAIN manifest = DOMAIN outputs /\ \A i \in DOMAIN outputs : manifest[i] = outputs[i].case
  <2>1. DOMAIN manifest = 1..Len(manifest)
    BY ManifestAssumption DEF CalibrationInv
  <2> QED
    BY <1>2, <2>1 DEF CalibrationInv, OutputsFollow
<1>4. ASSUME NEW i \in DOMAIN manifest
      PROVE  Labels[i] = Cardinality(Keyed(labelled, key, {i}))
  <2> DEFINE expected == outputs[i].case.expected
  <2>1. Keyed(labelled, key, {i}) = {i} \X expected
    <3>1. expected \subseteq Universe /\ i \in DOMAIN outputs
      BY <1>3, JudgedFinite
    <3> QED
      BY <3>1 DEF Judged, Keyed
  <2>2. IsFiniteSet(expected) /\ Cardinality(expected) \in Nat
    BY <1>3, JudgedFinite, FS_CardinalityType
  <2>3. Cardinality({i} \X expected) = Cardinality({i}) * Cardinality(expected)
    BY <2>2, FS_Singleton, FS_Product
  <2>4. Labels[i] = Cardinality(expected)
    BY <1>3 DEF Labels
  <2>5. Cardinality({i}) = 1
    BY FS_Singleton
  <2>6. PICK n \in Nat : n = Cardinality(expected)
    BY <2>2
  <2>7. Cardinality({i} \X expected) = n
    BY <2>3, <2>5, <2>6
  <2> QED
    BY <2>1, <2>4, <2>6, <2>7
<1>5. Keyed(labelled, key, DOMAIN manifest) = labelled
  BY <1>3 DEF Judged, Keyed
<1> HIDE DEF labelled, key
<1>6. Total(DOMAIN manifest, Labels) = Cardinality(Keyed(labelled, key, DOMAIN manifest))
  <2>1. IsFiniteSet(DOMAIN manifest)
    BY <1>2, <1>3
  <2> QED
    BY <1>2, <1>4, <2>1, CountsAddUp, Zenon
<1>7. Cardinality(labelled) = Cardinality(JudgedAs("true_positive")) + Cardinality(JudgedAs("false_negative"))
  <2> DEFINE hits == JudgedAs("true_positive")
             misses == JudgedAs("false_negative")
  <2>1. Cardinality(hits) \in Nat /\ Cardinality(misses) \in Nat
    BY <1>2, FS_CardinalityType
  <2> HIDE DEF hits, misses
  <2>2. Cardinality(hits \cup misses) = Cardinality(hits) + Cardinality(misses) - Cardinality(hits \cap misses)
    BY <1>2, FS_Union DEF hits, misses
  <2>3. Cardinality(hits \cap misses) = 0
    BY <1>1, FS_EmptySet DEF hits, misses
  <2>4. labelled = hits \cup misses
    BY <1>1 DEF hits, misses
  <2>5. Cardinality(labelled) = Cardinality(hits) + Cardinality(misses)
    BY <2>1, <2>2, <2>3, <2>4
  <2> QED
    BY <2>5 DEF hits, misses
<1> QED
  BY <1>5, <1>6, <1>7

(* The report that is written adds up. *)
LEMMA EvaluatingAddsUp == CalibrationInv /\ Evaluates => CalibrationAddsUp'
<1> SUFFICES ASSUME CalibrationInv, Evaluates
             PROVE  CalibrationAddsUp'
  OBVIOUS
<1>1. ASSUME NEW c \in Cells
      PROVE  calibration'.aggregate.counts[c] = Cardinality(JudgedAs(c))
  BY DEF Evaluates, Metrics, Counted, JudgedAs, Judged
<1>2. AddUp(calibration.by_rule)'
  <2>1. calibration'.by_rule = [r \in Universe |-> Metrics(Counted(DOMAIN outputs, {r}))]
    BY DEF Evaluates
  <2>2. ASSUME NEW c \in Cells
        PROVE  Total(DOMAIN calibration'.by_rule, Share(calibration'.by_rule, c)) = Cardinality(JudgedAs(c))
    BY <2>1, RulesAddUp
  <2> QED
    BY <1>1, <2>2 DEF AddUp
<1>3. AddUp(calibration.by_language)' /\ AddUp(calibration.by_format)'
  BY <1>1, FieldsAddUp DEF AddUp, Evaluates
<1>4. calibration'.aggregate.counts["true_positive"] + calibration'.aggregate.counts["false_negative"]
        = Total(DOMAIN manifest, Labels)
  BY <1>1, LabelsAddUp DEF Evaluates, Cells
<1>5. manifest' = manifest /\ Labels' = Labels
  BY DEF Evaluates, Labels
<1> QED
  BY <1>2, <1>3, <1>4, <1>5 DEF CalibrationAddsUp

(* Before the first case nothing is counted. *)
LEMMA CalibrationStarts == CalibrationInit => CalibrationInv
<1> SUFFICES ASSUME CalibrationInit
             PROVE  CalibrationInv
  OBVIOUS
<1>1. manifest \in Manifests /\ outputs = <<>> /\ kstep = "start"
  BY DEF CalibrationInit, CalibrationFresh
<1>2. Len(manifest) \in Nat
  BY <1>1, ManifestAssumption
<1> QED
  BY <1>1, <1>2 DEF CalibrationInv, OutputsFollow

(* Every step keeps the outputs in the order of the cases. *)
LEMMA CalibrationSteps == CalibrationInv /\ [CalibrationNext]_calibrationVars => CalibrationInv'
<1> SUFFICES ASSUME CalibrationInv, [CalibrationNext]_calibrationVars
             PROVE  CalibrationInv'
  OBVIOUS
<1>1. CASE UNCHANGED calibrationVars
  BY <1>1 DEF calibrationVars, CalibrationInv, OutputsFollow, Cases, Rows, CalibrationAddsUp, AddUp, Share, Labels
<1>2. CASE ReadsManifest
  BY <1>2 DEF ReadsManifest, CalibrationInv, OutputsFollow, Cases, Rows
<1>3. ASSUME NEW predicted \in SUBSET RuleIds, NEW version, ScansCase(predicted, version)
      PROVE  CalibrationInv'
  <2>1. outputs' = Append(outputs, [case |-> manifest[Len(outputs) + 1], predicted |-> predicted]) /\ manifest' = manifest
    BY <1>3 DEF ScansCase
  <2>2. /\ Len(outputs) \in Nat /\ Len(manifest) \in Nat /\ Len(outputs) < Len(manifest)
        /\ DOMAIN manifest = 1..Len(manifest)
    BY <1>3, ManifestAssumption DEF ScansCase, CalibrationInv, OutputsFollow
  <2>3. [case |-> manifest[Len(outputs) + 1], predicted |-> predicted] \in Rows
    BY <2>2 DEF Cases, Rows
  <2>4. /\ outputs' \in Seq(Rows) /\ Len(outputs') = Len(outputs) + 1
        /\ \A i \in 1..Len(outputs) : outputs'[i] = outputs[i]
        /\ outputs'[Len(outputs) + 1].case = manifest[Len(outputs) + 1]
    BY <2>1, <2>2, <2>3 DEF CalibrationInv, OutputsFollow
  <2>5. \A i \in 1..Len(outputs') : outputs'[i].case = manifest[i]
    BY <2>2, <2>4 DEF CalibrationInv, OutputsFollow
  <2>6. OutputsFollow'
    BY <2>1, <2>2, <2>4, <2>5 DEF OutputsFollow, Rows, Cases
  <2> QED
    BY <1>3, <2>1, <2>6 DEF CalibrationInv, ScansCase
<1>4. CASE Evaluates
  BY <1>4, EvaluatingAddsUp DEF Evaluates, CalibrationInv, OutputsFollow, Cases, Rows
<1> QED
  BY <1>1, <1>2, <1>3, <1>4 DEF CalibrationNext

(* For all manifests and whatever the rules say: the counts by rule, by    *)
(* language and by format add up to those in all, and every label is found *)
(* or missed (evaluate_calibration_cases).                                 *)
THEOREM CalibrationsAddUp == CalibrationSpec => []CalibrationAddsUp
<1>1. CalibrationInv => CalibrationAddsUp
  BY DEF CalibrationInv, CalibrationAddsUp
<1> QED
  BY <1>1, CalibrationStarts, CalibrationSteps, PTL DEF CalibrationSpec
-------------------------------------------------------------------------------
MeasuresSpec == MeasuresInit /\ [][MeasuresNext]_measuresVars
-------------------------------------------------------------------------------
(* Scores. *)

(* A larger number has no smaller quotient. *)
LEMMA DivisionGrows ==
    ASSUME NEW a \in Nat, NEW b \in Nat, NEW w \in Nat, w > 0, a <= b
    PROVE  /\ a \div w \in Nat /\ b \div w \in Nat
           /\ a \div w <= b \div w
OBVIOUS

(* A sum of what weighs something weighs something. *)
LEMMA TotalIsPositive ==
    ASSUME NEW S, IsFiniteSet(S), S # {}, NEW f, \A x \in S : f[x] \in Nat /\ f[x] > 0
    PROVE  Total(S, f) \in Nat /\ Total(S, f) > 0
<1>1. PICK x \in S : TRUE
  OBVIOUS
<1>2. PICK rest : rest = S \ {x}
  OBVIOUS
<1>3. IsFiniteSet(rest) /\ rest \subseteq S
  BY <1>2, FS_RemoveElement
<1>4. Total(rest, f) \in Nat
  BY <1>3, TotalIsNat
<1>5. Total(S, f) = f[x] + Total(rest, f)
  BY <1>2, TotalTakes
<1> QED
  BY <1>4, <1>5

(* Numbers weighted by numbers are numbers. *)
LEMMA WeightedIsNat ==
    ASSUME NEW S, NEW numbers, NEW weights, S \subseteq DOMAIN weights,
           \A x \in S : numbers[x] \in Nat /\ weights[x] \in Nat
    PROVE  \A x \in S : Weighted(numbers, weights)[x] \in Nat
<1> SUFFICES ASSUME NEW x \in S
             PROVE  Weighted(numbers, weights)[x] \in Nat
  OBVIOUS
<1>1. PICK n \in Nat, w \in Nat : n = numbers[x] /\ w = weights[x]
  OBVIOUS
<1>2. n * w \in Nat
  OBVIOUS
<1>3. Weighted(numbers, weights)[x] = n * w
  BY <1>1 DEF Weighted
<1> QED
  BY <1>2, <1>3

(* A mean is a number, and that of smaller numbers no larger. *)
LEMMA MeanGrows ==
    ASSUME NEW S, IsFiniteSet(S), S # {}, NEW weights, S \subseteq DOMAIN weights,
           \A x \in S : weights[x] \in Nat /\ weights[x] > 0,
           NEW low, NEW high, \A x \in S : low[x] \in Nat /\ high[x] \in Nat /\ low[x] <= high[x]
    PROVE  /\ Mean(S, low, weights) \in Nat /\ Mean(S, high, weights) \in Nat
           /\ Mean(S, low, weights) <= Mean(S, high, weights)
<1>1. PICK w \in Nat : w = Total(S, weights) /\ w > 0
  BY TotalIsPositive
<1>2. \A x \in S : Weighted(low, weights)[x] \in Nat /\ Weighted(high, weights)[x] \in Nat
  BY WeightedIsNat
<1>3. \A x \in S : Weighted(low, weights)[x] <= Weighted(high, weights)[x]
  <2> SUFFICES ASSUME NEW x \in S
               PROVE  Weighted(low, weights)[x] <= Weighted(high, weights)[x]
    OBVIOUS
  <2>1. PICK l \in Nat, h \in Nat, v \in Nat : l = low[x] /\ h = high[x] /\ v = weights[x]
    OBVIOUS
  <2>2. l * v <= h * v
    BY <2>1
  <2> QED
    BY <2>1, <2>2 DEF Weighted
<1>4. PICK a, b : a = Total(S, Weighted(low, weights)) /\ b = Total(S, Weighted(high, weights))
  OBVIOUS
<1>5. a \in Nat /\ b \in Nat
  BY <1>2, <1>4, TotalIsNat
<1>6. a <= b
  BY <1>2, <1>3, <1>4, TotalGrows
<1> QED
  BY <1>1, <1>4, <1>5, <1>6, DivisionGrows DEF Mean

(* The largest of some percentages is one of them. *)
LEMMA LargestIsOne ==
    ASSUME NEW S \in SUBSET (0..100), S # {}
    PROVE  Max(S) \in 0..100
<1> DEFINE above == {n \in Nat : \A x \in S : x <= n}
<1>1. 100 \in above
  OBVIOUS
<1>2. PICK n \in above : \A m \in above : <<m, n>> \notin OpToRel(<, Nat)
  <2>1. above # {} /\ above \in SUBSET Nat
    BY <1>1
  <2> HIDE DEF above
  <2> QED
    BY <2>1, NatLessThanWellFounded, WFMin
<1>3. n \in S
  <2> SUFFICES ASSUME n \notin S
               PROVE  FALSE
    OBVIOUS
  <2>1. n \in Nat /\ \A x \in S : x <= n
    BY <1>2
  <2>2. PICK m \in Nat : n = m + 1
    <3>1. PICK x \in S : x <= n /\ x # n
      BY <2>1
    <3>2. x \in 0..100
      OBVIOUS
    <3>3. n > 0
      BY <2>1, <3>1, <3>2
    <3> QED
      BY <2>1, <3>3
  <2>3. m \in above
    <3>1. ASSUME NEW x \in S
          PROVE  x <= m
      <4>1. x \in 0..100 /\ x <= n /\ x # n
        BY <2>1
      <4> QED
        BY <2>2, <4>1
    <3> QED
      BY <3>1
  <2>4. <<m, n>> \in OpToRel(<, Nat)
    BY <2>2 DEF OpToRel
  <2> QED
    BY <1>2, <2>3, <2>4
<1>4. \E y \in S : \A x \in S : y >= x
  BY <1>2, <1>3
<1> QED
  BY <1>4 DEF Max

(* What is scored: numbers, or nothing. *)
Valued == [ScoreNames -> Nat \cup {Unscored}]

PolicyWell(policy) ==
    /\ policy.weights \in [ScoreNames -> Nat] /\ policy.penalties \in [Gravities -> Nat]
    /\ policy.cap \in Nat /\ policy.minimum \in Nat

FindingsWell(those) ==
    IsFiniteSet(those) /\ \A f \in those : f.severity \in Gravities /\ f.confidence \in 0..100

(* More security findings, a lower security score. *)
LEMMA SecurityScoreFalls ==
    ASSUME NEW policy, PolicyWell(policy), NEW fewer, NEW more, FindingsWell(fewer), FindingsWell(more),
           SecurityFindings(fewer) \subseteq SecurityFindings(more)
    PROVE  /\ SecurityScore(policy, fewer) \in Nat /\ SecurityScore(policy, more) \in Nat
           /\ SecurityScore(policy, more) <= SecurityScore(policy, fewer)
<1>1. PICK few, many : few = SecurityFindings(fewer) /\ many = SecurityFindings(more)
  OBVIOUS
<1>2. PICK one, other : one = Penalties(policy, fewer) /\ other = Penalties(policy, more)
  OBVIOUS
<1>3. IsFiniteSet(few) /\ IsFiniteSet(many) /\ few \subseteq many
  BY <1>1, FS_Subset DEF FindingsWell, SecurityFindings
<1>4. ASSUME NEW f \in many
      PROVE  policy.penalties[f.severity] * f.confidence \in Nat
  <2>1. f.severity \in Gravities /\ f.confidence \in Nat
    BY <1>1 DEF FindingsWell, SecurityFindings
  <2>2. PICK p \in Nat, c \in Nat : p = policy.penalties[f.severity] /\ c = f.confidence
    BY <2>1 DEF PolicyWell
  <2>3. p * c \in Nat
    OBVIOUS
  <2> QED
    BY <2>2, <2>3
<1>5. \A f \in many : other[f] \in Nat
  BY <1>1, <1>2, <1>4 DEF Penalties
<1>6. \A f \in few : one[f] \in Nat /\ one[f] = other[f]
  BY <1>1, <1>2, <1>3, <1>4 DEF Penalties
<1>7. Total(few, one) \in Nat /\ Total(few, one) = Total(few, other) /\ Total(many, other) \in Nat
  BY <1>3, <1>5, <1>6, TotalIsNat, TotalAgrees
<1>8. Total(few, other) <= Total(many, other)
  BY <1>3, <1>5, TotalOfPart
<1> QED
  BY <1>1, <1>2, <1>7, <1>8 DEF SecurityScore, Most

(* The other two scores are numbers, where they are given. *)
LEMMA KnowledgeIsScored ==
    ASSUME NEW chunks \in Seq(ScoredChunks)
    PROVE  KnowledgeScore(chunks) \in Nat \cup {Unscored}
<1>1. CASE chunks = <<>>
  BY <1>1 DEF KnowledgeScore
<1>2. CASE chunks # <<>>
  <2>1. DOMAIN chunks = 1..Len(chunks) /\ Len(chunks) \in Nat /\ DOMAIN chunks # {}
    <3>1. Len(chunks) \in Nat /\ Len(chunks) # 0
      BY <1>2, EmptySeq
    <3> QED
      BY <3>1
  <2>2. IsFiniteSet(DOMAIN chunks)
    BY <2>1, FS_Interval
  <2>3. ASSUME NEW i \in DOMAIN chunks
        PROVE  /\ ChunkScores(chunks)[i] \in Nat
               /\ ChunkWeights(chunks)[i] \in Nat /\ ChunkWeights(chunks)[i] > 0
    <3>1. chunks[i] \in ScoredChunks
      BY <2>1
    <3>2. chunks[i].overall \in 0..100 /\ chunks[i].tokens \in Nat
      BY <3>1 DEF ScoredChunks
    <3>3. PICK o : o = chunks[i].overall
      OBVIOUS
    <3>4. PICK t : t = chunks[i].tokens
      OBVIOUS
    <3>5. ChunkScores(chunks)[i] = 100 * o /\ ChunkWeights(chunks)[i] = Most(1, t)
      BY <3>3, <3>4 DEF ChunkScores, ChunkWeights
    <3>6. o \in 0..100 /\ t \in Nat
      BY <3>2, <3>3, <3>4
    <3>7. Most(1, t) \in Nat /\ Most(1, t) > 0 /\ 100 * o \in Nat
      BY <3>6 DEF Most
    <3> QED
      BY <3>5, <3>6, <3>7
  <2>4. DOMAIN ChunkWeights(chunks) = DOMAIN chunks
    BY DEF ChunkWeights
  <2>5. PICK S, numbers, weights : S = DOMAIN chunks /\ numbers = ChunkScores(chunks) /\ weights = ChunkWeights(chunks)
    OBVIOUS
  <2>6. \A x \in S : numbers[x] \in Nat /\ numbers[x] <= numbers[x] /\ weights[x] \in Nat /\ weights[x] > 0
    BY <2>3, <2>5
  <2>7. Mean(S, numbers, weights) \in Nat
    BY <2>1, <2>2, <2>4, <2>5, <2>6, MeanGrows
  <2> QED
    BY <1>2, <2>5, <2>7 DEF KnowledgeScore
<1> QED
  BY <1>1, <1>2

(* So is the share of what is not repeated. *)
LEMMA EfficiencyIsScored ==
    ASSUME NEW percentages \in SUBSET (0..100)
    PROVE  EfficiencyScore(percentages) \in Nat \cup {Unscored}
<1>1. CASE percentages = {}
  BY <1>1 DEF EfficiencyScore
<1>2. CASE percentages # {}
  <2>1. PICK most \in 0..100 : most = Max(percentages)
    BY <1>2, LargestIsOne
  <2>2. Most(0, 10000 - 100 * most) \in Nat
    BY DEF Most
  <2> QED
    BY <1>2, <2>1, <2>2 DEF EfficiencyScore
<1> QED
  BY <1>1, <1>2

(* Lower scores of the same dimensions, a lower mean. *)
LEMMA WeightedMeanGrows ==
    ASSUME NEW low \in Valued, NEW high \in Valued, NEW weights \in [ScoreNames -> Nat],
           \A d \in ScoreNames : (low[d] = Unscored <=> high[d] = Unscored) /\ low[d] <= high[d]
    PROVE  /\ Assessed(low) = Assessed(high)
           /\ WeightedMean(low, weights) \in Nat \cup {Unscored} /\ WeightedMean(high, weights) \in Nat \cup {Unscored}
           /\ WeightedMean(low, weights) <= WeightedMean(high, weights)
<1>1. Assessed(low) = Assessed(high)
  BY DEF Assessed
<1>2. PICK S : S = Weighing(low, weights)
  OBVIOUS
<1>3. Weighing(high, weights) = S
  BY <1>1, <1>2 DEF Weighing
<1>4. S \subseteq ScoreNames /\ IsFiniteSet(S)
  <2>1. IsFiniteSet(ScoreNames)
    <3>1. IsFiniteSet({"security"}) /\ IsFiniteSet({"knowledge_quality"}) /\ IsFiniteSet({"efficiency"})
      BY FS_Singleton
    <3>2. IsFiniteSet({"security"} \cup {"knowledge_quality"})
      BY <3>1, FS_Union
    <3>3. IsFiniteSet(({"security"} \cup {"knowledge_quality"}) \cup {"efficiency"})
      BY <3>1, <3>2, FS_Union
    <3>4. ScoreNames = ({"security"} \cup {"knowledge_quality"}) \cup {"efficiency"}
      BY DEF ScoreNames
    <3> QED
      BY <3>3, <3>4
  <2>2. S \subseteq ScoreNames
    BY <1>2 DEF Weighing, Assessed
  <2> QED
    BY <2>1, <2>2, FS_Subset
<1>5. \A d \in S : weights[d] \in Nat /\ weights[d] > 0
  BY <1>2, <1>4 DEF Weighing
<1>6. \A d \in S : low[d] \in Nat /\ high[d] \in Nat /\ low[d] <= high[d]
  <2> SUFFICES ASSUME NEW d \in S
               PROVE  low[d] \in Nat /\ high[d] \in Nat /\ low[d] <= high[d]
    OBVIOUS
  <2>1. d \in ScoreNames /\ low[d] # Unscored
    BY <1>2, <1>4 DEF Weighing, Assessed
  <2> QED
    BY <2>1 DEF Valued
<1>7. CASE S = {}
  BY <1>1, <1>2, <1>3, <1>7 DEF WeightedMean, Unscored
<1>8. CASE S # {}
  <2>1. S \subseteq DOMAIN weights
    BY <1>4
  <2>2. /\ Mean(S, low, weights) \in Nat /\ Mean(S, high, weights) \in Nat
        /\ Mean(S, low, weights) <= Mean(S, high, weights)
    BY <1>4, <1>5, <1>6, <1>8, <2>1, MeanGrows
  <2> QED
    BY <1>1, <1>2, <1>3, <1>8, <2>2 DEF WeightedMean
<1> QED
  BY <1>7, <1>8

Critical(those) == \E f \in SecurityFindings(those) : f.severity = "critical"

(* Lower scores of the same dimensions, and no critical finding less, give *)
(* a lower overall score; and a critical finding caps it.                  *)
LEMMA OverallScoreFalls ==
    ASSUME NEW policy, PolicyWell(policy), NEW low \in Valued, NEW high \in Valued, NEW fewer, NEW more,
           \A d \in ScoreNames : (low[d] = Unscored <=> high[d] = Unscored) /\ low[d] <= high[d],
           Critical(fewer) => Critical(more)
    PROVE  /\ OverallScore(policy, high, fewer) \in Int
           /\ OverallScore(policy, low, more) <= OverallScore(policy, high, fewer)
           /\ Critical(fewer) => OverallScore(policy, high, fewer) <= policy.cap
<1>1. PICK cap \in Nat : cap = policy.cap
  BY DEF PolicyWell
<1>2. policy.weights \in [ScoreNames -> Nat]
  BY DEF PolicyWell
<1>3. PICK l \in Nat \cup {Unscored}, h \in Nat \cup {Unscored} :
          /\ l = WeightedMean(low, policy.weights) /\ h = WeightedMean(high, policy.weights) /\ l <= h
          /\ Assessed(low) = Assessed(high)
  BY <1>2, WeightedMeanGrows
<1>4. PICK enough : enough = ~(Cardinality(Assessed(high)) < policy.minimum)
  OBVIOUS
<1>5. OverallScore(policy, high, fewer) = IF ~enough THEN Unscored ELSE IF Critical(fewer) /\ h > cap THEN cap ELSE h
  BY <1>1, <1>3, <1>4 DEF OverallScore, Critical
<1>6. OverallScore(policy, low, more) = IF ~enough THEN Unscored ELSE IF Critical(more) /\ l > cap THEN cap ELSE l
  BY <1>1, <1>3, <1>4 DEF OverallScore, Critical
<1> QED
  BY <1>1, <1>3, <1>5, <1>6 DEF Unscored

(* The dimensions of two scans of the same settings, in all but what does  *)
(* not score.                                                              *)
SettingWell(setting) ==
    /\ setting.areas \subseteq ScannedAreas
    /\ setting.chunks \in Seq(ScoredChunks) /\ setting.duplicates \in SUBSET (0..100)

(* More security findings lower the security score and leave the others. *)
LEMMA DimensionsFall ==
    ASSUME NEW policy, PolicyWell(policy), NEW setting, SettingWell(setting),
           NEW fewer, NEW more, FindingsWell(fewer), FindingsWell(more), SecurityFindings(fewer) \subseteq SecurityFindings(more)
    PROVE  /\ DimensionScores(policy, setting, fewer) \in Valued /\ DimensionScores(policy, setting, more) \in Valued
           /\ \A d \in ScoreNames :
                 /\ DimensionScores(policy, setting, more)[d] = Unscored <=> DimensionScores(policy, setting, fewer)[d] = Unscored
                 /\ DimensionScores(policy, setting, more)[d] <= DimensionScores(policy, setting, fewer)[d]
<1>1. PICK k \in Nat \cup {Unscored}, e \in Nat \cup {Unscored} :
          k = KnowledgeScore(setting.chunks) /\ e = EfficiencyScore(setting.duplicates)
  BY KnowledgeIsScored, EfficiencyIsScored DEF SettingWell
<1>2. PICK a \in Nat, b \in Nat : a = SecurityScore(policy, fewer) /\ b = SecurityScore(policy, more) /\ b <= a
  BY SecurityScoreFalls
<1>3. PICK s, c, u : /\ s = ("static_security" \in setting.areas) /\ c = ("chunk_quality" \in setting.areas)
                     /\ u = ("duplicates" \in setting.areas)
  OBVIOUS
<1>4. /\ DimensionScores(policy, setting, fewer)
           = [security |-> IF s THEN a ELSE Unscored, knowledge_quality |-> IF c THEN k ELSE Unscored,
              efficiency |-> IF u THEN e ELSE Unscored]
      /\ DimensionScores(policy, setting, more)
           = [security |-> IF s THEN b ELSE Unscored, knowledge_quality |-> IF c THEN k ELSE Unscored,
              efficiency |-> IF u THEN e ELSE Unscored]
  BY <1>1, <1>2, <1>3 DEF DimensionScores
<1> QED
  BY <1>1, <1>2, <1>4 DEF Valued, ScoreNames, Unscored

(* More security findings never raise the overall score. *)
LEMMA CalculatedFalls ==
    ASSUME NEW setting, SettingWell(setting), PolicyWell(Policies[setting.policy]),
           NEW fewer, NEW more, FindingsWell(fewer), FindingsWell(more), SecurityFindings(fewer) \subseteq SecurityFindings(more)
    PROVE  /\ Calculate(setting, fewer).overall \in Int
           /\ Calculate(setting, more).overall <= Calculate(setting, fewer).overall
           /\ Critical(fewer) => Calculate(setting, fewer).overall <= Policies[setting.policy].cap
<1>1. PICK policy : policy = Policies[setting.policy]
  OBVIOUS
<1>2. PICK high, low : high = DimensionScores(policy, setting, fewer) /\ low = DimensionScores(policy, setting, more)
  OBVIOUS
<1>3. high \in Valued /\ low \in Valued
  BY <1>1, <1>2, DimensionsFall
<1>4. \A d \in ScoreNames : (low[d] = Unscored <=> high[d] = Unscored) /\ low[d] <= high[d]
  BY <1>1, <1>2, DimensionsFall
<1>5. Critical(fewer) => Critical(more)
  BY DEF Critical
<1>6. /\ Calculate(setting, fewer).overall = OverallScore(policy, high, fewer)
      /\ Calculate(setting, more).overall = OverallScore(policy, low, more)
  BY <1>1, <1>2 DEF Calculate
<1> QED
  BY <1>1, <1>3, <1>4, <1>5, <1>6, OverallScoreFalls
-------------------------------------------------------------------------------
(* Reports. *)

Current == {p \in DOMAIN Problems : ~Problems[p].legacy}

(* A report a scan of this release made, of the source as it was then.     *)
Made(r) ==
    /\ r.legacy = FALSE /\ r.setting \in Settings /\ r.truth \subseteq Current
    /\ r.policy = r.setting.policy
    /\ r.pack = IF "static_security" \in r.setting.areas THEN r.setting.pack ELSE NoPack
    /\ r.coverage = [a \in Areas |-> a \in r.setting.areas]
    /\ r.findings = {FindingFor(p, r.setting.pack) : p \in Looked(r.setting, r.read) \cap r.truth}
    /\ r.scores = Calculate(r.setting, r.findings)

(* What a report tells was there and looked for, and what was there and    *)
(* looked for it tells.                                                    *)
Covers(r, p) ==
    /\ p \in DOMAIN Problems /\ Problems[p].area \in Areas /\ r.coverage[Problems[p].area]
    /\ InPack(p, r.pack)

Tells(r) ==
    /\ \A p \in Prints(r.findings) : Covers(r, p)
    /\ \A p \in r.truth : Covers(r, p) /\ Problems[p].document \in r.read => p \in Prints(r.findings)

(* The reports of the history, and as they are read from it.               *)
OfHistory(r) == Made(r) \/ r \in OldReports
ReadOut(r) == Tells(r) /\ (r.legacy \/ Made(r))

(* What a scan saves is made of what was there. *)
LEMMA ReportsAreMade ==
    ASSUME problems \subseteq Current, NEW setting \in Settings, NEW read
    PROVE  Made(ReportOf(setting, read))
<1>1. PICK r : r = ReportOf(setting, read)
  OBVIOUS
<1>2. /\ r.setting = setting /\ r.legacy = FALSE /\ r.truth = problems /\ r.read = read /\ r.policy = setting.policy
      /\ r.pack = IF "static_security" \in setting.areas THEN setting.pack ELSE NoPack
      /\ r.coverage = [a \in Areas |-> a \in setting.areas]
      /\ r.findings = {FindingFor(p, setting.pack) : p \in Looked(setting, read) \cap problems}
      /\ r.scores = Calculate(setting, {FindingFor(p, setting.pack) : p \in Looked(setting, read) \cap problems})
  BY <1>1 DEF ReportOf
<1> QED
  BY <1>1, <1>2 DEF Made

(* The fingerprints of its findings are the problems it looked for. *)
LEMMA PrintsOfMade ==
    ASSUME NEW r, Made(r)
    PROVE  Prints(r.findings) = Looked(r.setting, r.read) \cap r.truth
<1>1. \A p \in Looked(r.setting, r.read) \cap r.truth : FindingFor(p, r.setting.pack).fingerprint = p
  BY DEF FindingFor
<1>2. r.findings = {FindingFor(p, r.setting.pack) : p \in Looked(r.setting, r.read) \cap r.truth}
  BY DEF Made
<1> QED
  BY <1>1, <1>2 DEF Prints

(* It tells no more and no less than there was to be found. *)
LEMMA MadeTells ==
    ASSUME NEW r, Made(r)
    PROVE  Tells(r)
<1>1. r.setting.areas \subseteq ScannedAreas
  BY MeasuresAssumption DEF Made
<1>2. \A a \in Areas : r.coverage[a] = (a \in r.setting.areas)
  BY DEF Made
<1>3. ASSUME NEW p \in DOMAIN Problems, Problems[p].area \in r.setting.areas
      PROVE  InPack(p, r.pack) <=> InPack(p, r.setting.pack)
  BY <1>3 DEF Made, InPack
<1>4. ASSUME NEW p \in Looked(r.setting, r.read)
      PROVE  Covers(r, p)
  BY <1>1, <1>2, <1>3 DEF Covers, Looked, Areas
<1>5. ASSUME NEW p \in r.truth, Covers(r, p), Problems[p].document \in r.read
      PROVE  p \in Looked(r.setting, r.read)
  <2>1. p \in DOMAIN Problems /\ ~Problems[p].legacy
    BY DEF Made, Current
  <2>2. Problems[p].area \in r.setting.areas
    BY <1>2, <1>5 DEF Covers
  <2> QED
    BY <1>3, <1>5, <2>1, <2>2 DEF Covers, Looked
<1> QED
  BY <1>4, <1>5, PrintsOfMade DEF Tells

(* A report of an earlier release tells the truth without its retired      *)
(* check, too.                                                             *)
LEMMA OldTells ==
    ASSUME NEW old \in OldReports
    PROVE  /\ WithoutRemovedConsistency(old).legacy = TRUE
           /\ Tells(WithoutRemovedConsistency(old))
<1>1. PICK r : r = WithoutRemovedConsistency(old)
  OBVIOUS
<1> DEFINE kept == {f \in old.findings : f.area # "consistency"}
<1>2. old.legacy = TRUE /\ {"legacy", "pack", "coverage", "findings", "scores", "truth", "read"} \subseteq DOMAIN old
  BY OldReportsAssumption
<1>3. /\ r.legacy = TRUE /\ r.findings = kept /\ r.pack = old.pack /\ r.truth = old.truth /\ r.read = old.read
      /\ r.coverage = [old.coverage EXCEPT !["version_conflict"] = FALSE]
  BY <1>1, <1>2 DEF WithoutRemovedConsistency
<1>4. /\ \A a \in ScannedAreas : r.coverage[a] = old.coverage[a]
      /\ r.coverage["version_conflict"] = FALSE
  <2>1. old.coverage \in [Areas -> BOOLEAN]
    BY OldReportsAssumption
  <2> QED
    BY <1>3, <2>1 DEF Areas, ScannedAreas
<1>5. ASSUME NEW p \in Prints(kept)
      PROVE  Covers(r, p)
  <2>1. PICK f \in old.findings : f.area # "consistency" /\ f.fingerprint = p
    BY DEF Prints
  <2>2. /\ p \in DOMAIN Problems /\ f.area = Problems[p].area
        /\ f.area \in ScannedAreas /\ old.coverage[f.area] /\ InPack(p, old.pack)
    BY <2>1, OldReportsAssumption
  <2> QED
    BY <1>3, <1>4, <2>2 DEF Covers, Areas
<1>6. ASSUME NEW p \in old.truth, Covers(r, p), Problems[p].document \in r.read
      PROVE  p \in Prints(kept)
  <2>1. Problems[p].area \in ScannedAreas /\ old.coverage[Problems[p].area]
    BY <1>4, <1>6 DEF Covers, Areas
  <2>2. InPack(p, old.pack) /\ Problems[p].document \in old.read /\ Problems[p].area \in Areas
    BY <1>3, <1>6 DEF Covers
  <2>3. PICK f \in old.findings : f.fingerprint = p
    BY <2>1, <2>2, OldReportsAssumption
  <2>4. f.area = Problems[p].area
    BY <2>3, OldReportsAssumption
  <2>5. f.area # "consistency"
    BY <2>1, <2>4 DEF ScannedAreas
  <2> QED
    BY <2>3, <2>5 DEF Prints
<1> HIDE DEF kept
<1> QED
  BY <1>1, <1>3, <1>5, <1>6 DEF Tells

(* Whatever the history has is read out as it is meant. *)
LEMMA KeptReadsOut ==
    ASSUME NEW r, OfHistory(r)
    PROVE  ReadOut(WithoutRemovedConsistency(r))
<1>1. CASE Made(r)
  <2>1. WithoutRemovedConsistency(r) = r
    BY <1>1 DEF WithoutRemovedConsistency, Made
  <2> QED
    BY <1>1, <2>1, MadeTells DEF ReadOut
<1>2. CASE r \in OldReports
  BY <1>2, OldTells DEF ReadOut
<1> QED
  BY <1>1, <1>2 DEF OfHistory

(* What a scan found, by its settings, is well scored. *)
LEMMA MadeIsWell ==
    ASSUME NEW r, Made(r)
    PROVE  FindingsWell(r.findings) /\ SettingWell(r.setting) /\ PolicyWell(Policies[r.setting.policy])
<1>1. SettingWell(r.setting) /\ PolicyWell(Policies[r.setting.policy])
  BY MeasuresAssumption DEF Made, SettingWell, PolicyWell
<1>2. PICK some, version : some = Looked(r.setting, r.read) \cap r.truth /\ version = r.setting.pack
  OBVIOUS
<1>3. some \subseteq DOMAIN Problems /\ IsFiniteSet(some)
  BY <1>2, MeasuresAssumption, FS_Subset DEF Looked
<1> DEFINE find == [p \in some |-> FindingFor(p, version)]
<1>4. r.findings = {FindingFor(p, version) : p \in some}
  BY <1>2 DEF Made
<1>5. find \in Surjection(some, r.findings)
  BY <1>4 DEF Surjection
<1>6. IsFiniteSet(r.findings)
  BY <1>3, <1>5, FS_Surjection
<1>7. ASSUME NEW p \in some
      PROVE  FindingFor(p, version).severity \in Gravities /\ FindingFor(p, version).confidence \in 0..100
  <2>1. p \in DOMAIN Problems /\ version \in DOMAIN Problems[p].severity
    BY <1>2, <1>3, MeasuresAssumption DEF Made
  <2>2. Problems[p].severity[version] \in Gravities /\ Problems[p].confidence \in 0..100
    BY <2>1, MeasuresAssumption
  <2> QED
    BY <2>2 DEF FindingFor
<1> QED
  BY <1>1, <1>4, <1>6, <1>7 DEF FindingsWell

(* Reports of one setting, the second with the findings of the first.      *)
LEMMA MadeFalls ==
    ASSUME NEW one, NEW other, Made(one), Made(other)
    PROVE  /\ one.scores.overall \in Int
           /\ one.setting = other.setting /\ SecurityFindings(one.findings) \subseteq SecurityFindings(other.findings)
                 => other.scores.overall <= one.scores.overall
           /\ Critical(one.findings) => one.scores.overall <= Policies[one.policy].cap
<1>1. PICK setting, fewer, more : setting = one.setting /\ fewer = one.findings /\ more = other.findings
  OBVIOUS
<1>2. /\ FindingsWell(fewer) /\ FindingsWell(more) /\ SettingWell(setting) /\ PolicyWell(Policies[setting.policy])
      /\ one.scores = Calculate(setting, fewer) /\ one.policy = setting.policy
      /\ one.setting = other.setting => other.scores = Calculate(setting, more)
  BY <1>1, MadeIsWell DEF Made
<1>3. /\ Calculate(setting, fewer).overall \in Int
      /\ Critical(fewer) => Calculate(setting, fewer).overall <= Policies[setting.policy].cap
  BY <1>2, CalculatedFalls
<1>4. SecurityFindings(fewer) \subseteq SecurityFindings(more)
        => Calculate(setting, more).overall <= Calculate(setting, fewer).overall
  BY <1>2, CalculatedFalls
<1> QED
  BY <1>1, <1>2, <1>3, <1>4

(* The same problems, texts and documents, looked for the same way, score  *)
(* the same.                                                               *)
LEMMA AlikeScoresAlike ==
    ASSUME NEW before, NEW after, Made(before), Made(after), Alike(before, after),
           before.coverage = after.coverage, before.pack = after.pack, before.policy = after.policy
    PROVE  before.scores.overall = after.scores.overall
<1>1. PICK one, other : one = before.setting /\ other = after.setting
  OBVIOUS
<1>2. one.areas = other.areas
  <2>1. one.areas \subseteq Areas /\ other.areas \subseteq Areas
    BY <1>1, MeasuresAssumption DEF Made, Areas
  <2>2. \A a \in Areas : (a \in one.areas) = (a \in other.areas)
    <3>1. /\ before.coverage = [a \in Areas |-> a \in one.areas]
          /\ after.coverage = [a \in Areas |-> a \in other.areas]
      BY <1>1 DEF Made
    <3>2. \A a \in Areas : before.coverage[a] = (a \in one.areas) /\ after.coverage[a] = (a \in other.areas)
      BY <3>1
    <3> QED
      BY <3>2
  <2> QED
    BY <2>1, <2>2
<1>3. "static_security" \in one.areas => one.pack = other.pack
  BY <1>1, <1>2 DEF Made
<1>4. one.policy = other.policy /\ one.chunks = other.chunks /\ one.duplicates = other.duplicates
  BY <1>1 DEF Made, Alike
<1>5. PICK actual, read : actual = before.truth /\ read = before.read /\ actual = after.truth /\ read = after.read
  BY DEF Alike
<1>6. PICK few, many : few = before.findings /\ many = after.findings
  OBVIOUS
<1>7. /\ few = {FindingFor(p, one.pack) : p \in Looked(one, read) \cap actual}
      /\ many = {FindingFor(p, other.pack) : p \in Looked(other, read) \cap actual}
  BY <1>1, <1>5, <1>6 DEF Made
<1>8. CASE "static_security" \in one.areas
  <2>1. Looked(one, read) = Looked(other, read)
    BY <1>2, <1>3, <1>8 DEF Looked
  <2>2. few = many
    BY <1>3, <1>7, <1>8, <2>1
  <2>3. DimensionScores(Policies[one.policy], one, few) = DimensionScores(Policies[other.policy], other, many)
    BY <1>2, <1>4, <2>2 DEF DimensionScores
  <2>4. Calculate(one, few) = Calculate(other, many)
    BY <1>4, <2>2, <2>3 DEF Calculate
  <2> QED
    BY <1>1, <1>6, <2>4 DEF Made
<1>9. CASE "static_security" \notin one.areas
  <2>1. SecurityFindings(few) = {} /\ SecurityFindings(many) = {}
    BY <1>2, <1>7, <1>9 DEF SecurityFindings, FindingFor, Looked
  <2>2. DimensionScores(Policies[one.policy], one, few) = DimensionScores(Policies[other.policy], other, many)
    BY <1>2, <1>4, <1>9 DEF DimensionScores
  <2>3. \A policy, values : OverallScore(policy, values, few) = OverallScore(policy, values, many)
    BY <2>1 DEF OverallScore
  <2>4. Calculate(one, few) = Calculate(other, many)
    BY <1>4, <2>2, <2>3 DEF Calculate
  <2> QED
    BY <1>1, <1>6, <2>4 DEF Made
<1> QED
  BY <1>8, <1>9

(* A comparison of two reports says no more than they do. *)
LEMMA ComparisonsAreHonest ==
    ASSUME NEW before, NEW after, ReadOut(before), ReadOut(after), compared' = CompareScans(before, after)
    PROVE  ResolvedIsGone' /\ EveryFindingIsClassed' /\ UnwarnedChangeIsReal'
<1>1. compared'.before = before /\ compared'.after = after
  BY DEF CompareScans
<1>2. PICK old, now, lifecycle, safe :
          /\ old = Prints(before.findings) /\ now = Prints(after.findings)
          /\ lifecycle = Compatible(before, after) /\ safe = ResolutionIsSafe(before, after)
  OBVIOUS
<1>3. /\ compared'.new = IF lifecycle THEN now \ old ELSE {}
      /\ compared'.resolved = IF lifecycle /\ safe THEN old \ now ELSE {}
      /\ compared'.unobserved = IF lifecycle /\ ~safe THEN old \ now ELSE {}
      /\ compared'.recurring = IF lifecycle THEN old \cap now ELSE {}
  BY <1>2 DEF CompareScans
<1>4. ResolvedIsGone'
  <2> SUFFICES ASSUME NEW p \in compared'.resolved, p \in after.truth, Problems[p].document \in after.read
               PROVE  FALSE
    BY <1>1 DEF ResolvedIsGone, Comparison
  <2>1. safe /\ p \in old /\ p \notin now
    BY <1>3
  <2>2. before.coverage = after.coverage /\ before.pack = after.pack
    BY <1>2, <2>1 DEF ResolutionIsSafe, CoverageEqual, RulePackEqual
  <2>3. Covers(before, p)
    BY <1>2, <2>1 DEF ReadOut, Tells
  <2>4. Covers(after, p)
    BY <2>2, <2>3 DEF Covers
  <2> QED
    BY <1>2, <2>1, <2>4 DEF ReadOut, Tells
<1>5. EveryFindingIsClassed'
  <2> SUFFICES ASSUME lifecycle
               PROVE  LET classes == <<compared'.new, compared'.resolved, compared'.unobserved, compared'.recurring>>
                      IN  /\ UNION {classes[i] : i \in 1..4} = old \cup now
                          /\ \A i, j \in 1..4 : i # j => classes[i] \cap classes[j] = {}
    BY <1>1, <1>2 DEF EveryFindingIsClassed, Comparison
  <2>1. PICK new, resolved, unobserved, recurring :
            /\ new = compared'.new /\ resolved = compared'.resolved /\ unobserved = compared'.unobserved
            /\ recurring = compared'.recurring
    OBVIOUS
  <2>2. /\ new \cup resolved \cup unobserved \cup recurring = old \cup now
        /\ new \cap resolved = {} /\ new \cap unobserved = {} /\ new \cap recurring = {}
        /\ resolved \cap unobserved = {} /\ resolved \cap recurring = {} /\ unobserved \cap recurring = {}
    BY <1>3, <2>1
  <2> DEFINE classes == <<new, resolved, unobserved, recurring>>
  <2>3. classes[1] = new /\ classes[2] = resolved /\ classes[3] = unobserved /\ classes[4] = recurring
    OBVIOUS
  <2>4. \A i \in 1..4 : i = 1 \/ i = 2 \/ i = 3 \/ i = 4
    OBVIOUS
  <2> HIDE DEF classes
  <2>5. UNION {classes[i] : i \in 1..4} = new \cup resolved \cup unobserved \cup recurring
    BY <2>3, <2>4
  <2>6. \A i, j \in 1..4 : i # j => classes[i] \cap classes[j] = {}
    BY <2>2, <2>3, <2>4
  <2> QED
    BY <2>1, <2>2, <2>5, <2>6 DEF classes
<1>6. UnwarnedChangeIsReal'
  <2> SUFFICES ASSUME compared'.warnings = {}, Alike(before, after)
               PROVE  compared'.deltas.overall \subseteq {0}
    BY <1>1 DEF UnwarnedChangeIsReal, Comparison
  <2>1. Warnings(before, after) = {}
    BY DEF CompareScans
  <2>2. Compatible(before, after)
    <3> SUFFICES ASSUME ~Compatible(before, after)
                 PROVE  FALSE
      OBVIOUS
    <3>1. before.source # after.source \/ before.type # after.type
      BY DEF Compatible
    <3>2. "source" \notin Warnings(before, after) /\ "type" \notin Warnings(before, after)
      BY <2>1
    <3> QED
      BY <3>1, <3>2 DEF Warnings
  <2>3. before.coverage = after.coverage /\ before.pack = after.pack /\ before.policy = after.policy
    <3>1. "coverage" \notin Warnings(before, after) /\ "rule_pack" \notin Warnings(before, after)
          /\ "policy" \notin Warnings(before, after)
      BY <2>1
    <3> QED
      BY <2>2, <3>1 DEF Warnings, CoverageEqual, RulePackEqual
  <2>4. Made(before) /\ Made(after)
    BY DEF Alike, ReadOut
  <2>5. before.scores.overall = after.scores.overall /\ before.scores.overall \in Int
    BY <2>3, <2>4, AlikeScoresAlike, MadeFalls
  <2>6. compared'.deltas.overall = ScoreDelta(before, after, "overall")
    BY DEF CompareScans
  <2>7. PICK s \in Int : before.scores.overall = s /\ after.scores.overall = s
    BY <2>5
  <2>8. ScoreDelta(before, after, "overall") \subseteq {s - s}
    BY <2>7 DEF ScoreDelta
  <2> QED
    BY <2>6, <2>8
<1> QED
  BY <1>4, <1>5, <1>6
-------------------------------------------------------------------------------
(* The steps. *)

Comparing(c) == c.step = "read" => \A r \in c.report : ReadOut(r)

MeasuresInv ==
    /\ problems \subseteq Current
    /\ \A h \in DOMAIN history : OfHistory(history[h].report)
    /\ Comparing(comparing)
    /\ ResolvedIsGone /\ EveryFindingIsClassed /\ UnwarnedChangeIsReal

(* What has not been compared is honest. *)
LEMMA NotComparedIsHonest ==
    ASSUME compared.kind # "comparison"
    PROVE  ResolvedIsGone /\ EveryFindingIsClassed /\ UnwarnedChangeIsReal
BY DEF ResolvedIsGone, EveryFindingIsClassed, UnwarnedChangeIsReal, Comparison

(* An answer that stays, stays honest. *)
LEMMA ComparedStays ==
    ASSUME MeasuresInv, compared' = compared
    PROVE  ResolvedIsGone' /\ EveryFindingIsClassed' /\ UnwarnedChangeIsReal'
<1>1. ResolvedIsGone'
  BY DEF MeasuresInv, ResolvedIsGone, Comparison
<1>2. EveryFindingIsClassed'
  BY DEF MeasuresInv, EveryFindingIsClassed, Comparison
<1>3. UnwarnedChangeIsReal'
  BY DEF MeasuresInv, UnwarnedChangeIsReal, Comparison
<1> QED
  BY <1>1, <1>2, <1>3

(* The history starts with nothing, or with an old report. *)
LEMMA MeasuresStarts == MeasuresInit => MeasuresInv
<1> SUFFICES ASSUME MeasuresInit
             PROVE  MeasuresInv
  OBVIOUS
<1>1. problems \subseteq Current
  BY DEF MeasuresInit, Current
<1>2. \A h \in DOMAIN history : OfHistory(history[h].report)
  <2>1. CASE history = <<>>
    BY <2>1
  <2>2. ASSUME NEW old \in OldReports, history = [h \in {1} |-> [display |-> 1, report |-> old]]
        PROVE  \A h \in DOMAIN history : OfHistory(history[h].report)
    BY <2>2 DEF OfHistory
  <2> QED
    BY <2>1, <2>2 DEF MeasuresInit
<1>3. Comparing(comparing)
  BY DEF MeasuresInit, Comparing
<1>4. compared.kind # "comparison"
  BY DEF MeasuresInit, NoAnswer
<1> QED
  BY <1>1, <1>2, <1>3, <1>4, NotComparedIsHonest DEF MeasuresInv

(* A report is saved. *)
LEMMA SavingIsHonest ==
    ASSUME MeasuresInv, NEW setting \in Settings, NEW read, SavesReport(ReportOf(setting, read))
    PROVE  MeasuresInv'
<1>1. PICK fresh : fresh = ReportOf(setting, read)
  OBVIOUS
<1>2. /\ history' = [h \in DOMAIN history \cup {saved'} |->
                       IF h = saved' THEN [display |-> NextDisplay, report |-> fresh] ELSE history[h]]
      /\ UNCHANGED <<problems, comparing, compared>>
  BY <1>1 DEF SavesReport
<1>3. Made(fresh)
  BY <1>1, ReportsAreMade DEF MeasuresInv
<1>4. ASSUME NEW h \in DOMAIN history'
      PROVE  OfHistory(history'[h].report)
  <2>1. CASE h = saved'
    BY <1>2, <1>3, <2>1 DEF OfHistory
  <2>2. CASE h # saved'
    BY <1>2, <2>2 DEF MeasuresInv
  <2> QED
    BY <2>1, <2>2
<1> QED
  BY <1>2, <1>4, ComparedStays DEF MeasuresInv

(* What is read from the history is meant as it says. *)
LEMMA ReadsOutOf ==
    ASSUME MeasuresInv, NEW h, NEW r \in Stored(h)
    PROVE  ReadOut(r)
<1>1. h \in DOMAIN history /\ r = WithoutRemovedConsistency(history[h].report)
  BY DEF Stored
<1> QED
  BY <1>1, KeptReadsOut DEF MeasuresInv

(* The comparison is answered. *)
LEMMA EndingIsHonest == MeasuresInv /\ EndsComparing => MeasuresInv'
<1> SUFFICES ASSUME MeasuresInv, EndsComparing
             PROVE  MeasuresInv'
  OBVIOUS
<1>1. PICK befores, afters : befores = comparing.report /\ afters = Stored(comparing.candidate)
  OBVIOUS
<1>2. /\ compared' = IF {} \in {befores, afters} THEN NotFound
                     ELSE CompareScans(CHOOSE r \in befores : TRUE, CHOOSE r \in afters : TRUE)
      /\ comparing' = [step |-> "idle"] /\ UNCHANGED <<problems, history>>
  BY <1>1 DEF EndsComparing
<1>3. (ResolvedIsGone /\ EveryFindingIsClassed /\ UnwarnedChangeIsReal)'
  <2>1. CASE {} \in {befores, afters}
    <3>1. compared'.kind # "comparison"
      BY <1>2, <2>1 DEF NotFound
    <3> QED
      BY <3>1 DEF ResolvedIsGone, EveryFindingIsClassed, UnwarnedChangeIsReal, Comparison
  <2>2. CASE {} \notin {befores, afters}
    <3>1. PICK before, after : before = (CHOOSE r \in befores : TRUE) /\ after = (CHOOSE r \in afters : TRUE)
      OBVIOUS
    <3>2. before \in befores /\ after \in afters
      BY <2>2, <3>1
    <3>3. ReadOut(before) /\ ReadOut(after)
      BY <1>1, <3>2, ReadsOutOf DEF MeasuresInv, Comparing, EndsComparing
    <3>4. compared' = CompareScans(before, after)
      BY <1>2, <2>2, <3>1
    <3> QED
      BY <3>3, <3>4, ComparisonsAreHonest
  <2> QED
    BY <2>1, <2>2
<1> QED
  BY <1>2, <1>3 DEF MeasuresInv, Comparing

(* Every step keeps the history and its comparison honest. *)
LEMMA MeasuresSteps == MeasuresInv /\ [MeasuresNext]_measuresVars => MeasuresInv'
<1> SUFFICES ASSUME MeasuresInv, [MeasuresNext]_measuresVars
             PROVE  MeasuresInv'
  OBVIOUS
<1>1. CASE UNCHANGED measuresVars
  BY <1>1, ComparedStays DEF measuresVars, MeasuresInv
<1>2. ASSUME NEW setting \in Settings, NEW read \in Readings, SavesReport(ReportOf(setting, read))
      PROVE  MeasuresInv'
  BY <1>2, SavingIsHonest
<1>3. ASSUME NEW p \in DOMAIN Problems, ~Problems[p].legacy, ProblemComesOrGoes(p)
      PROVE  MeasuresInv'
  BY <1>3, ComparedStays DEF ProblemComesOrGoes, MeasuresInv, Current
<1>4. ASSUME NEW h, DeletesReport(h)
      PROVE  MeasuresInv'
  BY <1>4, ComparedStays DEF DeletesReport, MeasuresInv
<1>5. ASSUME NEW baseline, NEW candidate, BeginsComparing(baseline, candidate)
      PROVE  MeasuresInv'
  <2>1. \A r \in Stored(baseline) : ReadOut(r)
    BY ReadsOutOf
  <2> QED
    BY <1>5, <2>1, ComparedStays DEF BeginsComparing, MeasuresInv, Comparing
<1>6. CASE EndsComparing
  BY <1>6, EndingIsHonest
<1> QED
  BY <1>1, <1>2, <1>3, <1>4, <1>5, <1>6 DEF MeasuresNext

(* What is known of the history is what is asked of it. *)
LEMMA MeasuresAreTrue == MeasuresInv => HistoryIsHonest
<1> SUFFICES ASSUME MeasuresInv
             PROVE  ScoresFall
  BY DEF MeasuresInv, HistoryIsHonest
<1> SUFFICES ASSUME NEW h \in DOMAIN history, NEW k \in DOMAIN history, NEW one, NEW other,
                    one = history[h].report, other = history[k].report, ~one.legacy, ~other.legacy
             PROVE  /\ one.setting = other.setting /\ SecurityFindings(one.findings) \subseteq SecurityFindings(other.findings)
                          => other.scores.overall <= one.scores.overall
                    /\ Critical(one.findings) => one.scores.overall <= Policies[one.policy].cap
  BY DEF ScoresFall, Critical
<1>1. Made(one) /\ Made(other)
  <2>1. OfHistory(one) /\ OfHistory(other)
    BY DEF MeasuresInv
  <2> QED
    BY <2>1, OldReportsAssumption DEF OfHistory
<1> QED
  BY <1>1, MadeFalls

(* For all problems, settings, policies and old reports, and every order   *)
(* of scans, deletions and a comparison: nothing is called resolved that a *)
(* scan could have seen, every finding is in one class, a score that moves *)
(* without a warning moves with the source, and more security findings     *)
(* never raise it (ScoreCalculator, compare_scans).                        *)
THEOREM HistoriesAreHonest == MeasuresSpec => []HistoryIsHonest
BY MeasuresStarts, MeasuresSteps, MeasuresAreTrue, PTL DEF MeasuresSpec
-------------------------------------------------------------------------------
(* Both as parts of Parts. *)

(* A calibration runs from its own start, or stays idle; an idle history   *)
(* is one with nothing in it.                                              *)
MeasuringInv == MeasuresInv /\ (CalibrationIdle \/ CalibrationInv)

(* Every behaviour of Parts starts so. *)
LEMMA MeasuringStarts == Init => MeasuringInv
<1> SUFFICES ASSUME Init
             PROVE  MeasuringInv
  OBVIOUS
<1>1. MeasuresInit \/ MeasuresIdle
  BY DEF Init, AllIdle
<1>2. CalibrationInit \/ CalibrationIdle
  BY DEF Init, AllIdle
<1>3. MeasuresIdle => MeasuresInv
  <2> SUFFICES ASSUME MeasuresIdle
               PROVE  MeasuresInv
    OBVIOUS
  <2>1. problems = {} /\ history = <<>> /\ comparing.step = "idle" /\ compared.kind # "comparison"
    BY DEF MeasuresIdle, NotFound
  <2> QED
    BY <2>1, NotComparedIsHonest DEF MeasuresInv, Comparing
<1> QED
  BY <1>1, <1>2, <1>3, MeasuresStarts, CalibrationStarts DEF MeasuringInv

(* Every step of a part keeps it so. *)
LEMMA MeasuringSteps == MeasuringInv /\ [Next]_partsVars => MeasuringInv'
<1> SUFFICES ASSUME MeasuringInv, [Next]_partsVars
             PROVE  MeasuringInv'
  OBVIOUS
<1>1. [MeasuresNext]_measuresVars /\ [CalibrationNext]_calibrationVars
  <2>1. CASE UNCHANGED partsVars
    BY <2>1 DEF partsVars
  <2>2. CASE Next
    BY <2>2 DEF Next, StillIdle
  <2> QED
    BY <2>1, <2>2
<1>2. CalibrationIdle => CalibrationIdle'
  <2> SUFFICES ASSUME CalibrationIdle
               PROVE  CalibrationIdle'
    OBVIOUS
  <2>1. ~CalibrationNext
    BY DEF CalibrationIdle, CalibrationNext, ReadsManifest, ScansCase, Evaluates
  <2> QED
    BY <1>1, <2>1 DEF calibrationVars, CalibrationIdle, CalibrationFresh
<1> QED
  BY <1>1, <1>2, MeasuresSteps, CalibrationSteps DEF MeasuringInv

(* Whatever is found, scored, compared and calibrated, in every behaviour  *)
(* of Parts: a finding is called resolved when its problem was gone or its *)
(* document not read, every finding is in one class, a score moves without *)
(* a warning only with the source, more security findings never raise it,  *)
(* and the counts of a calibration add up (scoring.py, history/service.py, *)
(* quality/calibration.py).                                                *)
THEOREM MeasuresStayHonest == PartsSpec => []MeasuresAreHonest
<1>1. CalibrationIdle => CalibrationAddsUp
  BY DEF CalibrationIdle, CalibrationAddsUp
<1>2. CalibrationInv => CalibrationAddsUp
  BY DEF CalibrationInv, CalibrationAddsUp
<1>3. MeasuringInv => MeasuresAreHonest
  BY <1>1, <1>2, MeasuresAreTrue DEF MeasuringInv, MeasuresAreHonest
<1> QED
  BY <1>3, MeasuringStarts, MeasuringSteps, PTL DEF PartsSpec
-------------------------------------------------------------------------------
(* What a model is asked about a report, and says of it (Advisory). *)

(* A list has finitely many members. *)
LEMMA MembersAreFinite ==
    ASSUME NEW s, IsList(s)
    PROVE  IsFiniteSet(ToSet(s)) /\ IsFiniteSet(DOMAIN s)
<1>1. PICK n \in Nat : n = Len(s) /\ DOMAIN s = 1..n
  BY ListFacts
<1>2. IsFiniteSet(1..n)
  BY FS_Interval
<1>3. PICK f : f = [i \in 1..n |-> s[i]]
  OBVIOUS
<1>4. DOMAIN f = 1..n /\ f = [i \in 1..n |-> f[i]] /\ \A y : y \in ToSet(s) <=> \E i \in 1..n : f[i] = y
  BY <1>1, <1>3, ListFacts
<1>5. IsFiniteSet(ToSet(s))
  BY <1>2, <1>4, ImageIsFinite
<1> QED
  BY <1>1, <1>2, <1>5

(* The findings of a group are those that have its key. *)
LEMMA ItemsAreTheirs ==
    ASSUME NEW r \in Reports, NEW key
    PROVE  /\ IsList(Items(r, key))
           /\ \A f : f \in ToSet(Items(r, key)) <=> f \in ToSet(r.findings) /\ GroupKey(f) = key
<1>1. IsList(r.findings)
  BY ReportsAssumption
<1>2. PICK slots : slots = {i \in DOMAIN r.findings : GroupKey(r.findings[i]) = key}
  OBVIOUS
<1>3. Items(r, key) = Picked(r.findings, slots)
  BY <1>2 DEF Items, Those
<1>4. slots \in SUBSET DOMAIN r.findings
  BY <1>2
<1>5. /\ IsList(Picked(r.findings, slots))
      /\ \A x : x \in ToSet(Picked(r.findings, slots)) <=> \E i \in slots : r.findings[i] = x
  BY <1>1, <1>4, PickedIsList
<1>6. \A f : f \in ToSet(r.findings) <=> \E i \in DOMAIN r.findings : r.findings[i] = f
  BY <1>1, ListFacts
<1>7. ASSUME NEW f
      PROVE  (\E i \in slots : r.findings[i] = f) <=> f \in ToSet(r.findings) /\ GroupKey(f) = key
  BY <1>2, <1>6
<1> QED
  BY <1>3, <1>5, <1>7

(* A key is one of two kinds with a number; its group has a first finding, *)
(* an urgency and a size.                                                  *)
LEMMA KeyFacts ==
    ASSUME NEW r \in Reports, NEW key \in Keys(r)
    PROVE  /\ key = <<key[1], key[2]>> /\ key[1] \in {"group", "rule"} /\ key[2] \in Int
           /\ IsList(Items(r, key)) /\ Len(Items(r, key)) > 0 /\ Items(r, key)[1] \in ToSet(r.findings)
           /\ Urgency(r, key) \in Int /\ AffectedChunks(r, key) \in Int
           /\ IsList(Members(r, key))
<1>1. PICK f \in ToSet(r.findings) : key = GroupKey(f)
  BY DEF Keys
<1>2. f.group \in Int /\ f.rule \in Int
  BY ReportsAssumption
<1>3. key = <<key[1], key[2]>> /\ key[1] \in {"group", "rule"} /\ key[2] \in Int
  BY <1>1, <1>2 DEF GroupKey
<1>4. PICK items : items = Items(r, key)
  OBVIOUS
<1>5. IsList(items) /\ f \in ToSet(items) /\ \A x \in ToSet(items) : x \in ToSet(r.findings)
  BY <1>1, <1>4, ItemsAreTheirs
<1>6. Len(items) \in Nat /\ Len(items) > 0 /\ items[1] \in ToSet(items)
  <2>1. Len(items) \in Nat /\ \A x : x \in ToSet(items) <=> \E i \in 1..Len(items) : items[i] = x
    BY <1>5, ListFacts
  <2>2. PICK i \in 1..Len(items) : items[i] = f
    BY <1>5, <2>1
  <2>3. 1 \in 1..Len(items)
    BY <2>1, <2>2
  <2> QED
    BY <2>1, <2>3
<1>7. Urgency(r, key) \in Int
  <2>1. PICK severity \in {"critical", "high", "medium", "low", "info"} : severity = items[1].severity
    BY <1>5, <1>6, ReportsAssumption
  <2>2. \E i \in 1..5 : Severities[i] = severity
    <3>1. /\ Severities[1] = "critical" /\ Severities[2] = "high" /\ Severities[3] = "medium"
          /\ Severities[4] = "low" /\ Severities[5] = "info"
      BY DEF Severities
    <3> QED
      BY <2>1, <3>1
  <2>3. Priority(severity) \in 1..5
    BY <2>2 DEF Priority
  <2> QED
    BY <1>4, <2>1, <2>3 DEF Urgency
<1>8. IsList(Members(r, key))
  BY ReportsAssumption, NoneIsList DEF Members
<1>9. AffectedChunks(r, key) \in Int
  <2>1. Len(Members(r, key)) \in Int
    BY <1>8, ListFacts
  <2>2. PICK chunks : chunks = {x.chunk : x \in ToSet(items)}
    OBVIOUS
  <2>3. PICK of : of = [x \in ToSet(items) |-> x.chunk]
    OBVIOUS
  <2>4. DOMAIN of = ToSet(items) /\ of = [x \in ToSet(items) |-> of[x]] /\ \A y : y \in chunks <=> \E x \in ToSet(items) : of[x] = y
    BY <2>2, <2>3
  <2>5. IsFiniteSet(ToSet(items))
    BY <1>5, MembersAreFinite
  <2>6. IsFiniteSet(chunks)
    BY <2>4, <2>5, ImageIsFinite
  <2>7. Cardinality(chunks) \in Int
    BY <2>6, FS_CardinalityType
  <2> QED
    BY <1>4, <2>1, <2>2, <2>7 DEF AffectedChunks
<1> QED
  BY <1>3, <1>4, <1>5, <1>6, <1>7, <1>8, <1>9

(* Of two groups one comes first, and so it does among three. *)
LEMMA KeysAreOrdered ==
    ASSUME NEW r \in Reports, NEW a \in Keys(r), NEW b \in Keys(r), NEW c \in Keys(r)
    PROVE  /\ ~Precedes(r, a, a)
           /\ a # b => Precedes(r, a, b) \/ Precedes(r, b, a)
           /\ Precedes(r, a, b) /\ Precedes(r, b, c) => Precedes(r, a, c)
           /\ Precedes(r, a, b) => Urgency(r, a) <= Urgency(r, b)
<1>1. \A key \in Keys(r) : /\ key = <<key[1], key[2]>> /\ key[1] \in {"group", "rule"} /\ key[2] \in Int
                           /\ Urgency(r, key) \in Int /\ AffectedChunks(r, key) \in Int
  BY KeyFacts
<1>2. PICK ua \in Int, ub \in Int, uc \in Int, wa \in Int, wb \in Int, wc \in Int :
        /\ ua = Urgency(r, a) /\ ub = Urgency(r, b) /\ uc = Urgency(r, c)
        /\ wa = AffectedChunks(r, a) /\ wb = AffectedChunks(r, b) /\ wc = AffectedChunks(r, c)
  BY <1>1
<1>3. PICK ka \in {"group", "rule"}, kb \in {"group", "rule"}, kc \in {"group", "rule"}, na \in Int, nb \in Int, nc \in Int :
        /\ ka = a[1] /\ kb = b[1] /\ kc = c[1] /\ na = a[2] /\ nb = b[2] /\ nc = c[2]
  BY <1>1
<1>4. a # b => ka # kb \/ na # nb
  BY <1>1, <1>3
<1>5. ~Precedes(r, a, a)
  BY <1>2, <1>3 DEF Precedes
<1>6. a # b => Precedes(r, a, b) \/ Precedes(r, b, a)
  BY <1>2, <1>3, <1>4 DEF Precedes
<1>7. Precedes(r, a, b) /\ Precedes(r, b, c) => Precedes(r, a, c)
  BY <1>2, <1>3 DEF Precedes
<1>8. Precedes(r, a, b) => Urgency(r, a) <= Urgency(r, b)
  BY <1>2 DEF Precedes
<1> QED
  BY <1>5, <1>6, <1>7, <1>8

(* The groups of a report in order: each once, the most urgent first. *)
LEMMA GroupsInOrder ==
    ASSUME NEW r \in Reports
    PROVE  \E order :
           /\ order = MostUrgentFirst(r)
           /\ Cardinality(Keys(r)) \in Nat /\ IsList(order) /\ Len(order) = Cardinality(Keys(r))
           /\ \A key \in Keys(r) : \E k \in 1..Len(order) : order[k] = key
           /\ \A k \in 1..Len(order) : order[k] \in Keys(r)
           /\ \A k, l \in 1..Len(order) : k <= l => Urgency(r, order[k]) <= Urgency(r, order[l])
<1>1. PICK S, order : S = Keys(r) /\ order = MostUrgentFirst(r)
  OBVIOUS
<1>2. IsFiniteSet(S)
  <2>1. PICK of : of = [f \in ToSet(r.findings) |-> GroupKey(f)]
    OBVIOUS
  <2>2. /\ DOMAIN of = ToSet(r.findings) /\ of = [f \in ToSet(r.findings) |-> of[f]]
        /\ \A y : y \in S <=> \E x \in ToSet(r.findings) : of[x] = y
    BY <1>1, <2>1 DEF Keys
  <2>3. IsFiniteSet(ToSet(r.findings))
    BY ReportsAssumption, MembersAreFinite
  <2> QED
    BY <2>2, <2>3, ImageIsFinite
<1> DEFINE upTo == [x \in S |-> {y \in S : y = x \/ Precedes(r, y, x)}]
           StandsAt(k, x) == Cardinality({y \in S : y = x \/ Precedes(r, y, x)}) = k
<1>3. upTo \in [S -> SUBSET S] /\ \A x \in S : x \in upTo[x]
  OBVIOUS
<1>4. \A x \in S : \A y : y \in upTo[x] <=> y \in S /\ (y = x \/ Precedes(r, y, x))
  OBVIOUS
<1>5. order = [k \in 1..Cardinality(S) |-> CHOOSE x \in S : StandsAt(k, x)]
  BY <1>1 DEF MostUrgentFirst, Ranked
<1>6. \A x \in S : \A k : StandsAt(k, x) <=> Cardinality(upTo[x]) = k
  <2>1. \A x \in S : upTo[x] = {y \in S : y = x \/ Precedes(r, y, x)}
    OBVIOUS
  <2> QED
    BY <2>1
<1> HIDE DEF upTo, StandsAt
<1>7. \A a, b, c \in S : /\ ~Precedes(r, a, a)
                         /\ a # b => Precedes(r, a, b) \/ Precedes(r, b, a)
                         /\ Precedes(r, a, b) /\ Precedes(r, b, c) => Precedes(r, a, c)
                         /\ Precedes(r, a, b) => Urgency(r, a) <= Urgency(r, b)
  BY <1>1, KeysAreOrdered
<1>8. ASSUME NEW x \in S, NEW y \in S, Precedes(r, x, y)
      PROVE  upTo[x] \subseteq upTo[y] /\ upTo[x] # upTo[y]
  <2>1. \A z \in upTo[x] : z \in upTo[y]
    BY <1>4, <1>7, <1>8
  <2>2. ~Precedes(r, y, x) /\ y # x
    BY <1>7, <1>8
  <2>3. y \in upTo[y] /\ y \notin upTo[x]
    BY <1>4, <2>2
  <2> QED
    BY <2>1, <2>3
<1>9. \A x, y \in S : x # y => \/ upTo[x] \subseteq upTo[y] /\ upTo[x] # upTo[y]
                               \/ upTo[y] \subseteq upTo[x] /\ upTo[x] # upTo[y]
  BY <1>7, <1>8
<1>10. Fills(order, Cardinality(S))
  BY <1>5 DEF Fills
<1>11. \A k \in 1..Cardinality(S) : (\E x \in S : Cardinality(upTo[x]) = k)
                                    => order[k] \in S /\ Cardinality(upTo[order[k]]) = k
  <2> SUFFICES ASSUME NEW k \in 1..Cardinality(S), \E x \in S : StandsAt(k, x)
               PROVE  order[k] \in S /\ StandsAt(k, order[k])
    BY <1>6
  <2>1. order[k] = CHOOSE x \in S : StandsAt(k, x)
    BY <1>5
  <2> QED
    BY <2>1
<1>12. /\ Cardinality(S) \in Nat /\ order \in Seq(S) /\ Len(order) = Cardinality(S)
       /\ \A x \in S : \E k \in 1..Len(order) : order[k] = x
       /\ \A k \in 1..Len(order) : order[k] \in S /\ Cardinality(upTo[order[k]]) = k
  BY <1>2, <1>3, <1>9, <1>10, <1>11, PlacedKeeps
<1>13. ASSUME NEW k \in 1..Len(order), NEW l \in 1..Len(order), k <= l
       PROVE  Urgency(r, order[k]) <= Urgency(r, order[l])
  <2>1. PICK a \in S, b \in S : a = order[k] /\ b = order[l] /\ Cardinality(upTo[a]) = k /\ Cardinality(upTo[b]) = l
    BY <1>12
  <2>2. CASE a = b
    <3>1. Urgency(r, a) \in Int
      BY <1>1, KeyFacts
    <3> QED
      BY <2>1, <2>2, <3>1
  <2>3. CASE a # b /\ Precedes(r, a, b)
    BY <1>7, <2>1, <2>3
  <2>4. CASE a # b /\ Precedes(r, b, a)
    <3>1. upTo[b] \subseteq upTo[a] /\ upTo[b] # upTo[a] /\ IsFiniteSet(upTo[a])
      <4>1. upTo[a] \subseteq S
        BY <1>3
      <4> QED
        BY <1>2, <1>8, <2>4, <4>1, FS_Subset
    <3>2. l <= k /\ (l = k => upTo[b] = upTo[a])
      BY <2>1, <3>1, FS_Subset
    <3> QED
      BY <1>13, <3>1, <3>2
  <2> QED
    BY <1>7, <2>1, <2>2, <2>3, <2>4
<1>14. IsList(order)
  BY <1>12, SeqIsList
<1> QED
  BY <1>1, <1>12, <1>13, <1>14

(* No excerpt of evidence comes from a source in which a security rule struck. *)
ExcerptsAreSafe(r, g) ==
    /\ {"evidence", "severity"} \subseteq DOMAIN g /\ IsList(g.evidence)
    /\ \A e \in ToSet(g.evidence) : "quoted" \in DOMAIN e /\ (e.quoted => e.source \notin UnsafeSources(r))

(* What a summary has of a group. *)
Describes(r, g, key) == ExcerptsAreSafe(r, g) /\ g.key = key /\ g.severity = Items(r, key)[1].severity

(* A group tells of its key, whole or compact. *)
LEMMA GroupsTell ==
    ASSUME NEW r \in Reports, NEW key \in Keys(r)
    PROVE  Describes(r, Group(r, key), key) /\ Describes(r, CompactGroup(Group(r, key)), key)
<1>1. PICK items : items = Items(r, key) /\ IsList(items)
  BY KeyFacts
<1>2. PICK members : members = Members(r, key) /\ IsList(members)
  BY KeyFacts
<1>3. PICK spots : /\ IsList(spots)
                    /\ spots = IF members # <<>> THEN [i \in DOMAIN members |-> [rule |-> items[1].rule, source |-> members[i]]]
                                ELSE items
  <2>1. PICK n \in Nat : n = Len(members) /\ DOMAIN members = 1..n
    BY <1>2, ListFacts
  <2>2. PICK f : f = [i \in DOMAIN members |-> [rule |-> items[1].rule, source |-> members[i]]]
    OBVIOUS
  <2>3. Fills(f, n)
    BY <2>1, <2>2 DEF Fills
  <2>4. IsList(f)
    BY <2>3, FilledIsList
  <2> QED
    BY <1>1, <2>2, <2>4
<1>4. PICK most : most = Take(spots, MaxEvidence) /\ IsList(most)
  BY <1>3, TakenIsList, RequestLimitsAssumption
<1>5. PICK shown : shown = [i \in DOMAIN most |-> Snippet(r, most[i].rule, most[i].source)]
  OBVIOUS
<1>6. PICK g : g = Group(r, key)
  OBVIOUS
<1>7. g.key = key /\ g.severity = items[1].severity /\ g.evidence = shown
      /\ {"key", "severity", "evidence", "compact", "matched"} \subseteq DOMAIN g
  BY <1>1, <1>2, <1>3, <1>4, <1>5, <1>6 DEF Group
<1>8. PICK n \in Nat : n = Len(most) /\ DOMAIN most = 1..n
  BY <1>4, ListFacts
<1>9. IsList(shown) /\ Len(shown) = n
  <2>1. Fills(shown, n)
    BY <1>5, <1>8 DEF Fills
  <2> QED
    BY <2>1, FilledIsList
<1>10. \A e \in ToSet(shown) : "quoted" \in DOMAIN e /\ (e.quoted => e.source \notin UnsafeSources(r))
  <2> SUFFICES ASSUME NEW e \in ToSet(shown)
               PROVE  "quoted" \in DOMAIN e /\ (e.quoted => e.source \notin UnsafeSources(r))
    OBVIOUS
  <2>1. PICK i \in 1..n : shown[i] = e
    BY <1>9, ListFacts
  <2>2. e = Snippet(r, most[i].rule, most[i].source)
    BY <1>5, <1>8, <2>1
  <2>7. PICK rule, source : source = most[i].source /\ rule = most[i].rule
    OBVIOUS
  <2>3. PICK safe \in BOOLEAN : safe <=> rule \notin StaticRules /\ source \notin UnsafeSources(r)
    OBVIOUS
  <2>4. e = [source |-> source, quoted |-> safe]
    BY <2>2, <2>3, <2>7 DEF Snippet
  <2>5. e.source = source /\ e.quoted = safe /\ "quoted" \in DOMAIN e
    BY <2>4
  <2> QED
    BY <2>3, <2>5
<1>11. PICK short : short = Take(shown, 2) /\ IsList(short) /\ \A e \in ToSet(short) : e \in ToSet(shown)
  BY <1>9, TakenIsList
<1>12. PICK c : c = CompactGroup(g)
  OBVIOUS
<1>13. /\ c.key = key /\ c.severity = items[1].severity /\ c.evidence = short
       /\ {"evidence", "severity"} \subseteq DOMAIN c
  BY <1>7, <1>11, <1>12 DEF CompactGroup
<1>14. Describes(r, g, key)
  BY <1>1, <1>7, <1>9, <1>10 DEF Describes, ExcerptsAreSafe
<1>15. Describes(r, c, key)
  BY <1>1, <1>10, <1>11, <1>13 DEF Describes, ExcerptsAreSafe
<1> QED
  BY <1>6, <1>12, <1>14, <1>15

(* Nothing takes no room. *)
LEMMA NothingFits == EncodedCharacters(<<>>) = 0
<1>1. PICK S, f : S = {} /\ f = [i \in DOMAIN <<>> |-> Weight(<<>>[i])]
  OBVIOUS
<1>2. DOMAIN <<>> = S
  BY <1>1
<1>3. Total(S, f) = 0
  BY <1>1, TotalUnfolds, FS_EmptySet
<1> QED
  BY <1>1, <1>2, <1>3 DEF EncodedCharacters

(* What the first k keys have made of a summary. *)
SoFar(r, keys, s, k) ==
    /\ s = [groups |-> s.groups, full |-> s.full] /\ s.full \in BOOLEAN
    /\ IsList(s.groups) /\ Len(s.groups) <= k /\ (~s.full => Len(s.groups) = k)
    /\ \A i \in 1..Len(s.groups) : Describes(r, s.groups[i], keys[i])
    /\ EncodedCharacters(s.groups) <= MaxContext

(* One more key: its group is put last, or the summary is full. *)
LEMMA OneMoreKey ==
    ASSUME NEW r \in Reports, NEW keys, NEW k \in Nat, keys[k + 1] \in Keys(r),
           NEW s, SoFar(r, keys, s, k)
    PROVE  SoFar(r, keys, Extended(r, s, keys[k + 1]), k + 1)
<1>1. PICK key \in Keys(r) : key = keys[k + 1]
  OBVIOUS
<1>2. PICK told, full : told = s.groups /\ full = s.full
  OBVIOUS
<1>3. /\ s = [groups |-> told, full |-> full] /\ full \in BOOLEAN
      /\ IsList(told) /\ Len(told) <= k /\ (~full => Len(told) = k)
      /\ \A i \in 1..Len(told) : Describes(r, told[i], keys[i])
      /\ EncodedCharacters(told) <= MaxContext
  BY <1>2 DEF SoFar
<1>4. Len(told) \in Nat
  BY <1>3, ListFacts
<1>5. PICK g, more : /\ Describes(r, g, key) /\ more = Admit(r, told, key) /\ more = Append(told, g)
  <2>1. Describes(r, Group(r, key), key) /\ Describes(r, CompactGroup(Group(r, key)), key)
    BY GroupsTell
  <2>2. \/ Admit(r, told, key) = Append(told, Group(r, key))
        \/ Admit(r, told, key) = Append(told, CompactGroup(Group(r, key)))
    BY DEF Admit
  <2> QED
    BY <2>1, <2>2
<1>6. /\ IsList(more) /\ Len(more) = Len(told) + 1 /\ more[Len(told) + 1] = g
      /\ \A i \in 1..Len(told) : more[i] = told[i]
  BY <1>3, <1>5, AppendedIsList
<1>7. PICK fits \in BOOLEAN : fits <=> ~full /\ EncodedCharacters(more) <= MaxContext
  OBVIOUS
<1>8. PICK t : t = Extended(r, s, key)
  OBVIOUS
<1>9. CASE ~fits
  <2>1. t = [groups |-> told, full |-> TRUE]
    BY <1>3, <1>5, <1>7, <1>8, <1>9 DEF Extended
  <2>2. t.groups = told /\ t.full = TRUE
    BY <2>1
  <2>3. SoFar(r, keys, t, k + 1)
    BY <1>3, <1>4, <2>1, <2>2 DEF SoFar
  <2> QED
    BY <1>1, <1>8, <2>3
<1>10. CASE fits
  <2>1. ~full /\ EncodedCharacters(more) <= MaxContext
    BY <1>7, <1>10
  <2>2. t = [groups |-> more, full |-> full]
    BY <1>3, <1>5, <1>8, <2>1 DEF Extended
  <2>3. t.groups = more /\ t.full = full
    BY <2>2
  <2>4. Len(told) = k
    BY <1>3, <2>1
  <2>5. ASSUME NEW i \in 1..Len(more)
        PROVE  Describes(r, more[i], keys[i])
    <3>1. CASE i = k + 1
      BY <1>1, <1>5, <1>6, <2>4, <3>1
    <3>2. CASE i # k + 1
      <4>1. i \in 1..Len(told)
        BY <1>4, <1>6, <2>4, <3>2
      <4> QED
        BY <1>3, <1>6, <4>1
    <3> QED
      BY <3>1, <3>2
  <2>7. SoFar(r, keys, t, k + 1)
    BY <1>3, <1>4, <1>6, <2>2, <2>3, <2>1, <2>4, <2>5 DEF SoFar
  <2> QED
    BY <1>1, <1>8, <2>7
<1> QED
  BY <1>9, <1>10

(* up holds what the first keys have made of a summary, for each number.   *)
SumsUp(up, r, keys, n) ==
    up = [k \in 0..n |-> IF k = 0 THEN [groups |-> <<>>, full |-> FALSE] ELSE Extended(r, up[k - 1], keys[k])]

(* There are summaries of however many keys. *)
LEMMA SummariesExist ==
    ASSUME NEW r, NEW keys, NEW n \in Nat
    PROVE  \E up : SumsUp(up, r, keys, n)
<1> DEFINE missing == {k \in Nat : ~\E up : SumsUp(up, r, keys, k)}
<1> SUFFICES ASSUME missing # {}
             PROVE  FALSE
  OBVIOUS
<1>1. PICK m \in missing : \A k \in missing : <<k, m>> \notin OpToRel(<, Nat)
  BY NatLessThanWellFounded, WFMin
<1>2. m # 0
  <2> DEFINE up == [k \in 0..0 |-> [groups |-> <<>>, full |-> FALSE]]
  <2>1. up = [k \in 0..0 |-> IF k = 0 THEN [groups |-> <<>>, full |-> FALSE] ELSE Extended(r, up[k - 1], keys[k])]
    OBVIOUS
  <2>2. SumsUp(up, r, keys, 0)
    BY <2>1 DEF SumsUp
  <2> QED
    BY <2>2
<1>3. PICK j \in Nat : m = j + 1
  BY <1>2
<1>4. j \notin missing
  <2> HIDE DEF missing
  <2>1. <<j, m>> \in OpToRel(<, Nat)
    BY <1>3 DEF OpToRel
  <2> QED
    BY <1>1, <2>1
<1>5. PICK up : SumsUp(up, r, keys, j)
  BY <1>4
<1>8. PICK last : last = Extended(r, up[j], keys[m])
  OBVIOUS
<1> DEFINE more == [k \in 0..m |-> IF k <= j THEN up[k] ELSE last]
<1>6. ASSUME NEW k \in 0..m
      PROVE  more[k] = IF k = 0 THEN [groups |-> <<>>, full |-> FALSE] ELSE Extended(r, more[k - 1], keys[k])
  <2>1. CASE k = m
    <3>1. ~(k <= j) /\ k # 0 /\ k - 1 = j /\ j \in 0..m
      BY <1>3, <2>1
    <3>2. more[k] = last /\ more[j] = up[j]
      BY <3>1
    <3> QED
      BY <1>8, <2>1, <3>1, <3>2
  <2>2. CASE k # m
    <3>1. k \in 0..j
      BY <1>3, <2>2
    <3>2. up[k] = IF k = 0 THEN [groups |-> <<>>, full |-> FALSE] ELSE Extended(r, up[k - 1], keys[k])
      BY <1>5, <3>1 DEF SumsUp
    <3>3. k # 0 => k - 1 \in 0..m /\ k - 1 <= j
      BY <1>3, <3>1
    <3>4. more[k] = up[k] /\ (k # 0 => more[k - 1] = up[k - 1])
      BY <3>1, <3>3
    <3> QED
      BY <3>2, <3>4
  <2> QED
    BY <2>1, <2>2
<1>7. SumsUp(more, r, keys, m)
  BY <1>6 DEF SumsUp
<1> QED
  BY <1>1, <1>7

(* The summary of a report has the first of its groups in order, within    *)
(* the room there is.                                                      *)
LEMMA SummaryIsFirst ==
    ASSUME NEW r \in Reports, NEW keys, keys = Prioritized(r), IsList(keys), \A k \in 1..Len(keys) : keys[k] \in Keys(r)
    PROVE  /\ IsList(Summary(r)) /\ Len(Summary(r)) <= Len(keys)
           /\ \A i \in 1..Len(Summary(r)) : Describes(r, Summary(r)[i], keys[i])
           /\ EncodedCharacters(Summary(r)) <= MaxContext
<1>1. PICK n \in Nat : n = Len(keys)
  BY ListFacts
<1>2. PICK up : SumsUp(up, r, keys, n) /\ Summary(r) = up[n].groups
  <2> DEFINE it == CHOOSE up : up = [k \in 0..n |-> IF k = 0 THEN [groups |-> <<>>, full |-> FALSE]
                                                     ELSE Extended(r, up[k - 1], keys[k])]
  <2>4. \E up : SumsUp(up, r, keys, n)
    BY SummariesExist
  <2>1. \E up : up = [k \in 0..n |-> IF k = 0 THEN [groups |-> <<>>, full |-> FALSE] ELSE Extended(r, up[k - 1], keys[k])]
    BY <2>4 DEF SumsUp
  <2>2. SumsUp(it, r, keys, n)
    BY <2>1 DEF SumsUp
  <2>3. Summary(r) = it[n].groups
    BY <1>1 DEF Summary
  <2> QED
    BY <2>2, <2>3
<1>3. up[0] = [groups |-> <<>>, full |-> FALSE] /\ \A k \in 1..n : up[k] = Extended(r, up[k - 1], keys[k])
  <2>1. \A k \in 0..n : up[k] = IF k = 0 THEN [groups |-> <<>>, full |-> FALSE] ELSE Extended(r, up[k - 1], keys[k])
    BY <1>2 DEF SumsUp
  <2>2. up[0] = [groups |-> <<>>, full |-> FALSE]
    <3>1. 0 \in 0..n
      OBVIOUS
    <3> QED
      BY <2>1, <3>1
  <2>3. ASSUME NEW k \in 1..n
        PROVE  up[k] = Extended(r, up[k - 1], keys[k])
    <3>1. k \in 0..n /\ k # 0
      OBVIOUS
    <3> QED
      BY <2>1, <3>1
  <2> QED
    BY <2>2, <2>3
<1> DEFINE bad == {k \in Nat : k <= n /\ ~SoFar(r, keys, up[k], k)}
<1>4. bad = {}
  <2> SUFFICES ASSUME bad # {}
               PROVE  FALSE
    OBVIOUS
  <2>1. PICK m \in bad : \A k \in bad : <<k, m>> \notin OpToRel(<, Nat)
    <3>1. bad \subseteq Nat
      OBVIOUS
    <3> HIDE DEF bad
    <3> QED
      BY <3>1, NatLessThanWellFounded, WFMin
  <2>2. m \in Nat /\ m <= n /\ ~SoFar(r, keys, up[m], m)
    BY <2>1
  <2>3. SoFar(r, keys, up[0], 0)
    <3>1. up[0].groups = <<>> /\ up[0].full = FALSE
      BY <1>3
    <3>2. IsList(<<>>) /\ Len(<<>>) = 0 /\ EncodedCharacters(<<>>) <= MaxContext
      BY NoneIsList, NothingFits, RequestLimitsAssumption
    <3> QED
      BY <1>3, <3>1, <3>2 DEF SoFar
  <2>4. PICK j \in Nat : m = j + 1
    BY <2>2, <2>3
  <2>5. SoFar(r, keys, up[j], j)
    <3>1. <<j, m>> \in OpToRel(<, Nat)
      BY <2>4 DEF OpToRel
    <3>2. j \notin bad
      <4> HIDE DEF bad
      <4> QED
        BY <2>1, <3>1
    <3> QED
      BY <2>2, <2>4, <3>2
  <2>6. keys[j + 1] \in Keys(r)
    BY <1>1, <2>2, <2>4
  <2>7. SoFar(r, keys, Extended(r, up[j], keys[j + 1]), j + 1)
    BY <2>5, <2>6, OneMoreKey
  <2>8. m - 1 = j /\ up[m] = Extended(r, up[m - 1], keys[m])
    BY <1>3, <2>2, <2>4
  <2> QED
    BY <2>2, <2>4, <2>7, <2>8
<1>5. SoFar(r, keys, up[n], n)
  BY <1>4
<1> QED
  BY <1>1, <1>2, <1>5 DEF SoFar

(* What a request has of its report, and what it leaves out.               *)
Represents(req, r) ==
    /\ IsList(req.groups) /\ EncodedCharacters(req.groups) <= MaxContext
    /\ \A g \in ToSet(req.groups) :
         /\ ExcerptsAreSafe(r, g)
         /\ \A f \in ToSet(r.findings) : f.id \notin req.ids => Priority(g.severity) <= Urgency(r, GroupKey(f))
    /\ IsFiniteSet(req.ids) /\ \A id \in req.ids : \E f \in ToSet(r.findings) : id = f.id
    /\ \A f \in ToSet(r.findings) : f.id \notin req.ids => req.omitted > 0
    /\ \A rule \in DOMAIN req.idsOf : IsList(req.idsOf[rule]) /\ \A id \in ToSet(req.idsOf[rule]) : id \in req.ids
    /\ req.counts = r.counts /\ req.skipped = r.skipped

(* The ids of a group are those of its findings. *)
LEMMA GroupIdsAre ==
    ASSUME NEW r \in Reports, NEW g
    PROVE  IsList(GroupIds(r, g)) /\ \A id \in ToSet(GroupIds(r, g)) : \E f \in ToSet(Items(r, g.key)) : id = f.id
<1>1. PICK items : items = Items(r, g.key) /\ IsList(items)
  BY ItemsAreTheirs
<1>2. PICK n \in Nat : n = Len(items) /\ DOMAIN items = 1..n
  BY <1>1, ListFacts
<1>3. PICK of : of = [j \in DOMAIN items |-> items[j].id]
  OBVIOUS
<1>4. GroupIds(r, g) = of
  BY <1>1, <1>3 DEF GroupIds
<1>5. Fills(of, n) /\ \A j \in 1..n : of[j] = items[j].id
  BY <1>2, <1>3 DEF Fills
<1>6. IsList(of) /\ Len(of) = n
  BY <1>5, FilledIsList
<1>7. ASSUME NEW id \in ToSet(of)
      PROVE  \E f \in ToSet(items) : id = f.id
  <2>1. PICK j \in 1..n : of[j] = id
    BY <1>6, ListFacts
  <2>2. items[j] \in ToSet(items)
    BY <1>1, <1>2, ListFacts
  <2> QED
    BY <1>5, <2>1, <2>2
<1> QED
  BY <1>1, <1>4, <1>6, <1>7

(* The ids told by a summary are those of the findings of its groups. *)
LEMMA IdsAreTold ==
    ASSUME NEW r \in Reports, NEW summary, IsList(summary)
    PROVE  /\ \A id : id \in FindingIds(r, summary) <=> \E g \in ToSet(summary) : \E f \in ToSet(Items(r, g.key)) : id = f.id
           /\ \A id \in FindingIds(r, summary) : \E f \in ToSet(r.findings) : id = f.id
           /\ IsFiniteSet(FindingIds(r, summary))
<1>1. \A id : id \in FindingIds(r, summary) <=> \E g \in ToSet(summary) : \E f \in ToSet(Items(r, g.key)) : id = f.id
  BY DEF FindingIds
<1>2. \A id \in FindingIds(r, summary) : \E f \in ToSet(r.findings) : id = f.id
  BY <1>1, ItemsAreTheirs
<1>3. PICK base, of : base = ToSet(r.findings) /\ of = [f \in base |-> f.id]
  OBVIOUS
<1>4. PICK all : all = {f.id : f \in base}
  OBVIOUS
<1>5. DOMAIN of = base /\ of = [x \in base |-> of[x]] /\ \A y : y \in all <=> \E x \in base : of[x] = y
  BY <1>3, <1>4
<1>6. IsFiniteSet(base)
  BY <1>3, ReportsAssumption, MembersAreFinite
<1>7. IsFiniteSet(all)
  BY <1>5, <1>6, ImageIsFinite
<1>8. FindingIds(r, summary) \subseteq all
  BY <1>2, <1>3, <1>4
<1>9. IsFiniteSet(FindingIds(r, summary))
  BY <1>7, <1>8, FS_Subset
<1> QED
  BY <1>1, <1>2, <1>9

(* A request represents its report. *)
LEMMA RequestsRepresent ==
    ASSUME NEW r \in Reports
    PROVE  Represents(BuildAnalysisRequest(r), r)
<1>1. PICK order : /\ order = MostUrgentFirst(r)
                   /\ Cardinality(Keys(r)) \in Nat /\ IsList(order) /\ Len(order) = Cardinality(Keys(r))
                   /\ \A key \in Keys(r) : \E k \in 1..Len(order) : order[k] = key
                   /\ \A k \in 1..Len(order) : order[k] \in Keys(r)
                   /\ \A k, l \in 1..Len(order) : k <= l => Urgency(r, order[k]) <= Urgency(r, order[l])
  BY GroupsInOrder
<1>2. PICK size \in Nat : size = Len(order) /\ size = Cardinality(Keys(r))
  BY <1>1
<1>3. PICK keys : keys = Prioritized(r) /\ IsList(keys) /\ Len(keys) \in Nat /\ Len(keys) <= size
                  /\ \A k \in 1..Len(keys) : keys[k] = order[k]
  <2>5. PICK most \in Nat : most = MaxGroups
    BY RequestLimitsAssumption
  <2>1. PICK few : few = Take(order, most)
    OBVIOUS
  <2>6. IsList(order)
    BY <1>1
  <2>2. /\ IsList(few) /\ Len(few) = Least(most, Len(order))
        /\ \A k \in 1..Least(most, Len(order)) : few[k] = order[k]
    BY <2>1, <2>6, TakenIsList
  <2>7. PICK m : m = Least(most, size)
    OBVIOUS
  <2>8. m \in Nat /\ m <= size
    BY <2>7 DEF Least
  <2>3. Len(few) \in Nat /\ Len(few) <= size
    BY <1>2, <2>2, <2>7, <2>8
  <2>4. few = Prioritized(r)
    BY <1>1, <2>1, <2>5 DEF Prioritized
  <2> QED
    BY <2>2, <2>3, <2>4
<1>4. \A k \in 1..Len(keys) : keys[k] \in Keys(r)
  BY <1>1, <1>2, <1>3
<1>5. PICK summary : /\ summary = Summary(r) /\ IsList(summary) /\ Len(summary) <= Len(keys)
                     /\ \A i \in 1..Len(summary) : Describes(r, summary[i], keys[i])
                     /\ EncodedCharacters(summary) <= MaxContext
  BY <1>3, <1>4, SummaryIsFirst
<1>6. PICK n \in Nat : n = Len(summary) /\ n <= size /\ DOMAIN summary = 1..n
                       /\ \A g : g \in ToSet(summary) <=> \E i \in 1..n : summary[i] = g
  BY <1>3, <1>5, ListFacts
<1>7. \A i \in 1..n : Describes(r, summary[i], order[i])
  BY <1>3, <1>5, <1>6
<1>8. PICK ids : ids = FindingIds(r, summary)
  OBVIOUS
<1>9. /\ IsFiniteSet(ids) /\ \A id \in ids : \E f \in ToSet(r.findings) : id = f.id
      /\ \A id : id \in ids <=> \E g \in ToSet(summary) : \E f \in ToSet(Items(r, g.key)) : id = f.id
  BY <1>5, <1>8, IdsAreTold
<1>10. ASSUME NEW f \in ToSet(r.findings), f.id \notin ids
       PROVE  \E k \in 1..size : n < k /\ order[k] = GroupKey(f)
  <2>1. GroupKey(f) \in Keys(r)
    BY DEF Keys
  <2>2. PICK k \in 1..size : order[k] = GroupKey(f)
    BY <1>1, <1>2, <2>1
  <2>3. ASSUME k <= n
        PROVE  FALSE
    <3>1. k \in 1..n
      BY <2>3
    <3>2. summary[k].key = GroupKey(f) /\ summary[k] \in ToSet(summary)
      BY <1>6, <1>7, <2>2, <3>1 DEF Describes
    <3>3. f \in ToSet(Items(r, summary[k].key))
      BY <3>2, ItemsAreTheirs
    <3> QED
      BY <1>9, <1>10, <3>2, <3>3
  <2> QED
    BY <2>2, <2>3
<1>11. PICK req : req = BuildAnalysisRequest(r)
  OBVIOUS
<1>12. /\ req.groups = summary /\ req.ids = ids /\ req.omitted = size - n
       /\ req.counts = r.counts /\ req.skipped = r.skipped
       /\ req.idsOf = [rule \in {g.rule : g \in ToSet(summary)} |->
                         Chained([i \in DOMAIN summary |-> IF summary[i].rule = rule THEN GroupIds(r, summary[i]) ELSE <<>>])]
  BY <1>2, <1>5, <1>6, <1>8, <1>11 DEF BuildAnalysisRequest
<1>13. ASSUME NEW g \in ToSet(summary)
       PROVE  /\ ExcerptsAreSafe(r, g)
              /\ \A f \in ToSet(r.findings) : f.id \notin ids => Priority(g.severity) <= Urgency(r, GroupKey(f))
  <2>1. PICK i \in 1..n : summary[i] = g
    BY <1>6
  <2>2. ExcerptsAreSafe(r, g) /\ Priority(g.severity) = Urgency(r, order[i])
    BY <1>7, <2>1 DEF Describes, Urgency
  <2>3. ASSUME NEW f \in ToSet(r.findings), f.id \notin ids
        PROVE  Urgency(r, order[i]) <= Urgency(r, GroupKey(f))
    <3>1. PICK k \in 1..size : n < k /\ order[k] = GroupKey(f)
      BY <1>10, <2>3
    <3>2. i \in 1..size /\ i <= k
      BY <1>6, <3>1
    <3> QED
      BY <1>1, <1>2, <3>1, <3>2
  <2> QED
    BY <2>2, <2>3
<1>14. ASSUME NEW rule \in DOMAIN req.idsOf
       PROVE  IsList(req.idsOf[rule]) /\ \A id \in ToSet(req.idsOf[rule]) : id \in ids
  <2>1. PICK parts : parts = [i \in DOMAIN summary |-> IF summary[i].rule = rule THEN GroupIds(r, summary[i]) ELSE <<>>]
    OBVIOUS
  <2>2. req.idsOf[rule] = Chained(parts)
    BY <1>12, <2>1
  <2>3. Fills(parts, n) /\ DOMAIN parts = 1..n
    BY <1>6, <2>1 DEF Fills
  <2>4. IsList(parts)
    BY <2>3, FilledIsList
  <2>5. ASSUME NEW i \in 1..n
        PROVE  IsList(parts[i]) /\ \A id \in ToSet(parts[i]) : id \in ids
    <3>1. summary[i] \in ToSet(summary)
      BY <1>6
    <3>2. CASE summary[i].rule = rule
      <4>1. parts[i] = GroupIds(r, summary[i])
        BY <1>6, <2>1, <3>2
      <4>2. IsList(GroupIds(r, summary[i]))
            /\ \A id \in ToSet(GroupIds(r, summary[i])) : \E f \in ToSet(Items(r, summary[i].key)) : id = f.id
        BY GroupIdsAre
      <4> QED
        BY <1>9, <3>1, <4>1, <4>2
    <3>3. CASE summary[i].rule # rule
      <4>1. parts[i] = <<>>
        BY <1>6, <2>1, <3>3
      <4> QED
        BY <4>1, NoneIsList
    <3> QED
      BY <3>2, <3>3
  <2>6. /\ IsList(Chained(parts))
        /\ \A x : x \in ToSet(Chained(parts)) <=> \E i \in DOMAIN parts : x \in ToSet(parts[i])
    BY <2>3, <2>4, <2>5, ChainedKeeps
  <2> QED
    BY <2>2, <2>3, <2>5, <2>6
<1>15. ASSUME NEW f \in ToSet(r.findings), f.id \notin ids
       PROVE  size - n > 0
  BY <1>10, <1>15
<1>16. Represents(req, r)
  BY <1>5, <1>9, <1>12, <1>13, <1>14, <1>15 DEF Represents
<1> QED
  BY <1>11, <1>16

(* What may leave the program, of a report r and its request. *)
MaySend(s, req, r) ==
    /\ EncodedCharacters(s.groups) <= IF s.attempt = "again" THEN MaxRetryContext ELSE MaxContext
    /\ \A g \in ToSet(s.groups) : \A e \in ToSet(g.evidence) :
          e.quoted /\ e.source # 0 => ~\E f \in ToSet(r.findings) : f.source = e.source /\ f.rule \in StaticRules
    /\ \A f \in ToSet(r.findings), g \in ToSet(s.groups) :
          f.id \notin req.ids => Priority(g.severity) <= Urgency(r, GroupKey(f))

(* A group of the second request quotes nothing. *)
LEMMA RetryQuotesNothing ==
    ASSUME NEW r, NEW g, ExcerptsAreSafe(r, g)
    PROVE  /\ RetryGroup(g).severity = g.severity
           /\ \A e \in ToSet(RetryGroup(g).evidence) : ~e.quoted
<1>1. PICK most : most = Take(g.evidence, 2) /\ IsList(most) /\ \A e \in ToSet(most) : e \in ToSet(g.evidence)
  BY TakenIsList DEF ExcerptsAreSafe
<1>2. PICK n \in Nat : n = Len(most) /\ DOMAIN most = 1..n
  BY <1>1, ListFacts
<1>3. PICK bare : bare = [j \in DOMAIN most |-> [most[j] EXCEPT !.quoted = FALSE]]
  OBVIOUS
<1>4. Fills(bare, n)
  BY <1>2, <1>3 DEF Fills
<1>5. IsList(bare) /\ Len(bare) = n
  BY <1>4, FilledIsList
<1>6. ASSUME NEW e \in ToSet(bare)
      PROVE  ~e.quoted
  <2>1. PICK j \in 1..n : bare[j] = e
    BY <1>5, ListFacts
  <2>2. most[j] \in ToSet(most)
    BY <1>1, <1>2, ListFacts
  <2>3. "quoted" \in DOMAIN most[j]
    BY <1>1, <2>2 DEF ExcerptsAreSafe
  <2>4. e = [most[j] EXCEPT !.quoted = FALSE]
    BY <1>2, <1>3, <2>1
  <2> QED
    BY <2>3, <2>4
<1>7. RetryGroup(g).severity = g.severity /\ RetryGroup(g).evidence = bare
  BY <1>1, <1>3 DEF RetryGroup, ExcerptsAreSafe
<1> QED
  BY <1>6, <1>7

(* So many of the lists fit, and one more does not. *)
FitsTo(s, n) ==
    /\ \A m \in 0..n : EncodedCharacters(Take(s, m)) <= MaxRetryContext
    /\ n = Len(s) \/ ~(EncodedCharacters(Take(s, n + 1)) <= MaxRetryContext)

LEMMA SomeFit ==
    ASSUME NEW s, IsList(s)
    PROVE  \E n \in 0..Len(s) : FitsTo(s, n)
<1>1. PICK size \in Nat : size = Len(s)
  BY ListFacts
<1> DEFINE Fits(m) == EncodedCharacters(Take(s, m)) <= MaxRetryContext
           over == {m \in Nat : m <= size /\ ~Fits(m)}
<1>2. Fits(0)
  <2>1. Take(s, 0) = <<>>
    BY DEF Take
  <2> QED
    BY <2>1, NothingFits, RequestLimitsAssumption
<1>3. CASE over = {}
  <2>1. FitsTo(s, size)
    BY <1>1, <1>3 DEF FitsTo
  <2> QED
    BY <1>1, <2>1
<1>4. CASE over # {}
  <2>1. PICK m \in over : \A k \in over : <<k, m>> \notin OpToRel(<, Nat)
    <3>1. over \subseteq Nat
      OBVIOUS
    <3> HIDE DEF over
    <3> QED
      BY <1>4, <3>1, NatLessThanWellFounded, WFMin
  <2>2. m \in Nat /\ m <= size /\ ~Fits(m)
    BY <2>1
  <2>3. PICK n \in Nat : m = n + 1
    BY <1>2, <2>2
  <2>4. ASSUME NEW k \in 0..n
        PROVE  Fits(k)
    <3>1. <<k, m>> \in OpToRel(<, Nat)
      BY <2>3 DEF OpToRel
    <3>2. k \notin over
      <4> HIDE DEF over
      <4> QED
        BY <2>1, <3>1
    <3> QED
      BY <2>2, <2>3, <3>2
  <2>5. ~(EncodedCharacters(Take(s, n + 1)) <= MaxRetryContext)
    BY <2>2, <2>3
  <2>6. FitsTo(s, n)
    BY <2>4, <2>5 DEF FitsTo
  <2> QED
    BY <1>1, <2>2, <2>3, <2>6
<1> QED
  BY <1>3, <1>4

(* Nothing else leaves the program, the first time or again. *)
LEMMA MessagesMayLeave ==
    ASSUME NEW r, NEW req, Represents(req, r), NEW attempt \in {"ask", "simplify", "again"}
    PROVE  MaySend(Messages(req, attempt), req, r)
<1>1. /\ IsList(req.groups) /\ EncodedCharacters(req.groups) <= MaxContext
      /\ \A g \in ToSet(req.groups) :
           /\ ExcerptsAreSafe(r, g)
           /\ \A f \in ToSet(r.findings) : f.id \notin req.ids => Priority(g.severity) <= Urgency(r, GroupKey(f))
  BY DEF Represents
<1>2. CASE attempt # "again"
  <2>1. PICK s : s = Messages(req, attempt)
    OBVIOUS
  <2>2. s.groups = req.groups /\ s.attempt # "again"
    BY <1>2, <2>1 DEF Messages
  <2>3. ASSUME NEW g \in ToSet(s.groups), NEW e \in ToSet(g.evidence), e.quoted, e.source # 0,
               NEW f \in ToSet(r.findings), f.source = e.source, f.rule \in StaticRules
        PROVE  FALSE
    <3>1. e.source \notin UnsafeSources(r)
      BY <1>1, <2>2, <2>3 DEF ExcerptsAreSafe
    <3> QED
      BY <2>3, <3>1 DEF UnsafeSources
  <2>4. MaySend(s, req, r)
    BY <1>1, <2>2, <2>3 DEF MaySend
  <2> QED
    BY <2>1, <2>4
<1>3. CASE attempt = "again"
  <2>1. PICK few : few = Take(req.groups, MaxRetryGroups) /\ IsList(few) /\ \A g \in ToSet(few) : g \in ToSet(req.groups)
    BY <1>1, TakenIsList, RequestLimitsAssumption
  <2>2. PICK n \in Nat : n = Len(few) /\ DOMAIN few = 1..n /\ \A i \in 1..n : few[i] \in ToSet(few)
    BY <2>1, ListFacts
  <2>3. PICK short : short = [i \in DOMAIN few |-> RetryGroup(few[i])]
    OBVIOUS
  <2>4. Fills(short, n)
    BY <2>2, <2>3 DEF Fills
  <2>5. IsList(short) /\ Len(short) = n
    BY <2>4, FilledIsList
  <2>6. PICK most : /\ most = CHOOSE m \in 0..Len(short) : FitsTo(short, m)
                    /\ most \in 0..Len(short) /\ FitsTo(short, most)
    BY <2>5, SomeFit
  <2>7. RetryGroups(req) = Take(short, most)
    BY <2>1, <2>3, <2>6 DEF RetryGroups, FitsTo
  <2>8. PICK last : last = Take(short, most)
    OBVIOUS
  <2>9. EncodedCharacters(last) <= MaxRetryContext
    BY <2>5, <2>6, <2>8 DEF FitsTo
  <2>10. \A g \in ToSet(last) : g \in ToSet(short)
    BY <2>5, <2>6, <2>8, TakenIsList
  <2>11. \A g \in ToSet(last) : \E i \in 1..n : g = RetryGroup(few[i])
    <3>1. \A g : g \in ToSet(short) <=> \E i \in 1..n : short[i] = g
      BY <2>5, ListFacts
    <3> QED
      BY <2>2, <2>3, <2>10, <3>1
  <2>12. ASSUME NEW g \in ToSet(last)
         PROVE  /\ \A e \in ToSet(g.evidence) : ~e.quoted
                /\ \A f \in ToSet(r.findings) : f.id \notin req.ids => Priority(g.severity) <= Urgency(r, GroupKey(f))
    <3>1. PICK i \in 1..n : g = RetryGroup(few[i])
      BY <2>11
    <3>2. PICK it \in ToSet(req.groups) : g = RetryGroup(it) /\ ExcerptsAreSafe(r, it)
      BY <1>1, <2>1, <2>2, <3>1
    <3>3. g.severity = it.severity /\ \A e \in ToSet(g.evidence) : ~e.quoted
      BY <3>2, RetryQuotesNothing
    <3> QED
      BY <1>1, <3>2, <3>3
  <2>13. PICK s : s = Messages(req, attempt)
    OBVIOUS
  <2>14. s.groups = last /\ s.attempt = "again"
    BY <1>3, <2>7, <2>8, <2>13 DEF Messages
  <2>15. MaySend(s, req, r)
    BY <2>9, <2>12, <2>14 DEF MaySend
  <2> QED
    BY <2>13, <2>15
<1> QED
  BY <1>2, <1>3

SomeText == [present : BOOLEAN, severities : SUBSET STRING, numbers : SUBSET Int, minor : BOOLEAN]
SomeCaveat == [areas : SUBSET STRING, selection : BOOLEAN, full : BOOLEAN]

(* What the guards and the actions need of the content of an analysis. *)
IsContent(content) ==
    /\ {"text", "caveat", "actions", "recovered"} \subseteq DOMAIN content
    /\ content.text \in SomeText /\ content.caveat \in SomeCaveat
    /\ IsList(content.actions) /\ \A x \in ToSet(content.actions) : IsList(x.addresses)

(* What a report may say of the answer of a model. *)
IsGuarded(said, req, r) ==
    /\ \A s \in Nonzero(req) : Names(said.content.text, s, r.counts[s])
    /\ ~(r.counts["medium"] > 0 /\ said.content.text.minor)
    /\ ~said.content.caveat.full =>
         /\ r.skipped \subseteq said.content.caveat.areas
         /\ (\E f \in ToSet(r.findings) : f.id \notin req.ids) => said.content.caveat.selection
    /\ said.ids \cup ToSet(said.actions) \subseteq {f.id : f \in ToSet(r.findings)} \cap req.ids

(* An answer is content of an analysis, once what is incomplete is left out. *)
LEMMA AnswersAreContent ==
    ASSUME NEW a \in Answers
    PROVE  IsContent(CompatibleAnswer(a)) /\ CompatibleAnswer(a).text = a.text
<1>1. PICK raw : raw = Take(a.actions, MaxList) /\ IsList(raw) /\ \A x \in ToSet(raw) : x \in ToSet(a.actions)
  BY AnswersAssumption, RequestLimitsAssumption, TakenIsList
<1>2. PICK n \in Nat : n = Len(raw) /\ DOMAIN raw = 1..n /\ \A i \in 1..n : raw[i] \in ToSet(raw)
  BY <1>1, ListFacts
<1>3. PICK ranked : ranked = [i \in DOMAIN raw |-> [raw[i] EXCEPT !.order = IF @ \in 1..20 THEN @ ELSE i]]
  OBVIOUS
<1>4. Fills(ranked, n)
  BY <1>2, <1>3 DEF Fills
<1>5. IsList(ranked) /\ Len(ranked) = n /\ DOMAIN ranked = 1..n
  BY <1>4, FilledIsList, ListFacts
<1>6. \A i \in 1..n : IsList(ranked[i].addresses)
  <2> SUFFICES ASSUME NEW i \in 1..n
               PROVE  IsList(ranked[i].addresses)
    OBVIOUS
  <2>1. "addresses" \in DOMAIN raw[i] /\ IsList(raw[i].addresses)
    BY <1>1, <1>2, AnswersAssumption
  <2>2. ranked[i] = [raw[i] EXCEPT !.order = IF @ \in 1..20 THEN @ ELSE i]
    BY <1>2, <1>3
  <2>3. ranked[i].addresses = raw[i].addresses
    BY <2>1, <2>2
  <2> QED
    BY <2>1, <2>3
<1>7. PICK slots : slots = {i \in DOMAIN ranked : ranked[i].action}
  OBVIOUS
<1>8. slots \in SUBSET DOMAIN ranked
  BY <1>7
<1>9. PICK kept : kept = Picked(ranked, slots) /\ IsList(kept) /\ \A x : x \in ToSet(kept) <=> \E i \in slots : ranked[i] = x
  BY <1>5, <1>8, PickedIsList
<1>10. kept = CompatibleActions(a)
  <2>1. PICK first : first = Take(a.actions, MaxList)
    OBVIOUS
  <2>2. CompatibleActions(a) = Those([i \in DOMAIN first |-> [first[i] EXCEPT !.order = IF @ \in 1..20 THEN @ ELSE i]],
                                     LAMBDA x : x.action)
    BY <2>1 DEF CompatibleActions
  <2>3. ranked = [i \in DOMAIN first |-> [first[i] EXCEPT !.order = IF @ \in 1..20 THEN @ ELSE i]]
    BY <1>1, <1>3, <2>1
  <2>4. CompatibleActions(a) = Those(ranked, LAMBDA x : x.action)
    BY <2>2, <2>3
  <2>5. Those(ranked, LAMBDA x : x.action) = Picked(ranked, {i \in DOMAIN ranked : ranked[i].action})
    BY DEF Those
  <2> QED
    BY <1>7, <1>9, <2>4, <2>5
<1>11. \A x \in ToSet(kept) : IsList(x.addresses)
  BY <1>5, <1>6, <1>8, <1>9
<1>12. PICK content : content = CompatibleAnswer(a)
  OBVIOUS
<1>13. PICK causes : causes = CompatibleCauses(a)
  OBVIOUS
<1>14. content = [text |-> a.text, causes |-> causes, actions |-> kept, caveat |-> a.caveat, recovered |-> FALSE]
  BY <1>10, <1>12, <1>13 DEF CompatibleAnswer
<1>15. a.text \in SomeText /\ a.caveat \in SomeCaveat
  BY AnswersAssumption DEF SomeText, SomeCaveat
<1>16. IsContent(content)
  BY <1>9, <1>11, <1>14, <1>15 DEF IsContent
<1> QED
  BY <1>12, <1>14, <1>16

(* The actions of an analysis are about findings that were sent. *)
LEMMA ActionsAreSent ==
    ASSUME NEW r, NEW req, Represents(req, r), NEW content, IsContent(content)
    PROVE  \A id \in ToSet(FindingActions(content, req)) : id \in req.ids
<1>1. \A rule \in DOMAIN req.idsOf : IsList(req.idsOf[rule]) /\ \A id \in ToSet(req.idsOf[rule]) : id \in req.ids
  BY DEF Represents
<1>2. ASSUME NEW x \in ToSet(content.actions)
      PROVE  IsList(Addressed(x, req)) /\ \A id \in ToSet(Addressed(x, req)) : id \in req.ids
  <2>1. PICK named : named = x.addresses /\ IsList(named)
    BY DEF IsContent
  <2>2. PICK n \in Nat : n = Len(named) /\ DOMAIN named = 1..n
    BY <2>1, ListFacts
  <2>3. PICK parts : parts = [i \in DOMAIN named |-> IF named[i] \in DOMAIN req.idsOf THEN req.idsOf[named[i]] ELSE <<>>]
    OBVIOUS
  <2>4. Fills(parts, n) /\ DOMAIN parts = 1..n
    BY <2>2, <2>3 DEF Fills
  <2>5. IsList(parts)
    BY <2>4, FilledIsList
  <2>6. ASSUME NEW i \in 1..n
        PROVE  IsList(parts[i]) /\ \A id \in ToSet(parts[i]) : id \in req.ids
    <3>1. CASE named[i] \in DOMAIN req.idsOf
      <4>1. parts[i] = req.idsOf[named[i]]
        BY <2>2, <2>3, <3>1
      <4> QED
        BY <1>1, <3>1, <4>1
    <3>2. CASE named[i] \notin DOMAIN req.idsOf
      <4>1. parts[i] = <<>>
        BY <2>2, <2>3, <3>2
      <4> QED
        BY <4>1, NoneIsList
    <3> QED
      BY <3>1, <3>2
  <2>7. /\ IsList(Chained(parts))
        /\ \A y : y \in ToSet(Chained(parts)) <=> \E i \in DOMAIN parts : y \in ToSet(parts[i])
    BY <2>4, <2>5, <2>6, ChainedKeeps
  <2>8. Addressed(x, req) = Chained(parts)
    BY <2>1, <2>3 DEF Addressed
  <2> QED
    BY <2>4, <2>6, <2>7, <2>8
<1>3. PICK doing : doing = content.actions /\ IsList(doing)
  BY DEF IsContent
<1>4. PICK n \in Nat : n = Len(doing) /\ DOMAIN doing = 1..n /\ \A i \in 1..n : doing[i] \in ToSet(doing)
  BY <1>3, ListFacts
<1>5. PICK parts : parts = [i \in DOMAIN doing |-> Addressed(doing[i], req)]
  OBVIOUS
<1>6. Fills(parts, n) /\ DOMAIN parts = 1..n /\ \A i \in 1..n : parts[i] = Addressed(doing[i], req)
  BY <1>4, <1>5 DEF Fills
<1>7. IsList(parts)
  BY <1>6, FilledIsList
<1>8. \A i \in 1..n : IsList(parts[i]) /\ \A id \in ToSet(parts[i]) : id \in req.ids
  BY <1>2, <1>3, <1>4, <1>6
<1>9. /\ IsList(Chained(parts))
      /\ \A y : y \in ToSet(Chained(parts)) <=> \E i \in DOMAIN parts : y \in ToSet(parts[i])
  BY <1>6, <1>7, <1>8, ChainedKeeps
<1>10. \A x \in ToSet(Take(Chained(parts), MaxGroups)) : x \in ToSet(Chained(parts))
  BY <1>9, TakenIsList, RequestLimitsAssumption
<1>11. FindingActions(content, req) = Take(Chained(parts), MaxGroups)
  BY <1>3, <1>5 DEF FindingActions
<1> QED
  BY <1>6, <1>8, <1>9, <1>10, <1>11

(* The guards put what the model left out of the text and of the caveat.   *)
LEMMA GuardsHold ==
    ASSUME NEW r, NEW req, Represents(req, r), NEW content, IsContent(content), ~Contradicts(content, req)
    PROVE  /\ \A s \in Nonzero(req) : Names(Guarded(content, req).text, s, r.counts[s])
           /\ ~(r.counts["medium"] > 0 /\ Guarded(content, req).text.minor)
           /\ ~Guarded(content, req).caveat.full =>
                /\ r.skipped \subseteq Guarded(content, req).caveat.areas
                /\ (\E f \in ToSet(r.findings) : f.id \notin req.ids) => Guarded(content, req).caveat.selection
<1>1. PICK said, caveat : said = content.text /\ caveat = content.caveat
  OBVIOUS
<1>2. said \in SomeText /\ caveat \in SomeCaveat /\ {"text", "caveat"} \subseteq DOMAIN content
  BY <1>1 DEF IsContent
<1>3. req.counts = r.counts /\ req.skipped = r.skipped /\ \A f \in ToSet(r.findings) : f.id \notin req.ids => req.omitted > 0
  BY DEF Represents
<1>4. PICK lacking : lacking = (\E s \in Nonzero(req) : ~Names(said, s, req.counts[s])) /\ lacking \in BOOLEAN
  OBVIOUS
<1>5. PICK dist : dist = SeverityDistribution(req)
  OBVIOUS
<1>6. dist.severities = Nonzero(req) /\ dist.numbers = {req.counts[s] : s \in Nonzero(req)}
  BY <1>5 DEF SeverityDistribution
<1>7. PICK text : text = IF lacking THEN [said EXCEPT !.severities = @ \cup dist.severities, !.numbers = @ \cup dist.numbers] ELSE said
  OBVIOUS
<1>8. PICK told : told = IF caveat.full THEN caveat
                         ELSE [caveat EXCEPT !.areas = @ \cup req.skipped, !.selection = @ \/ req.omitted > 0]
  OBVIOUS
<1>9. Guarded(content, req) = [content EXCEPT !.text = text, !.caveat = told]
  BY <1>1, <1>4, <1>5, <1>7, <1>8 DEF Guarded
<1>10. Guarded(content, req).text = text /\ Guarded(content, req).caveat = told
  BY <1>2, <1>9
<1>11. ASSUME NEW s \in Nonzero(req)
       PROVE  Names(text, s, r.counts[s])
  <2>1. CASE lacking
    <3>1. /\ text.severities = said.severities \cup dist.severities
          /\ text.numbers = said.numbers \cup dist.numbers
      BY <1>2, <1>7, <2>1 DEF SomeText
    <3>2. s \in text.severities /\ r.counts[s] \in text.numbers
      BY <1>3, <1>6, <3>1
    <3>3. Within(r.counts[s], r.counts[s])
      BY DEF Within
    <3> QED
      BY <3>2, <3>3 DEF Names
  <2>2. CASE ~lacking
    BY <1>3, <1>4, <1>7, <2>2
  <2> QED
    BY <1>4, <2>1, <2>2
<1>12. ~(r.counts["medium"] > 0 /\ text.minor)
  <2>1. text.minor = said.minor
    BY <1>2, <1>7 DEF SomeText
  <2> QED
    BY <1>1, <1>3, <2>1 DEF Contradicts
<1>13. ASSUME ~told.full
       PROVE  /\ r.skipped \subseteq told.areas
              /\ (\E f \in ToSet(r.findings) : f.id \notin req.ids) => told.selection
  <2>1. told.full = caveat.full /\ ~caveat.full
    BY <1>2, <1>8, <1>13 DEF SomeCaveat
  <2>2. PICK left \in BOOLEAN : left <=> req.omitted > 0
    OBVIOUS
  <2>3. told = [caveat EXCEPT !.areas = @ \cup req.skipped, !.selection = @ \/ req.omitted > 0]
    BY <1>8, <2>1
  <2>4. told.areas = caveat.areas \cup req.skipped
    BY <1>2, <2>3 DEF SomeCaveat
  <2>5. told.selection = (caveat.selection \/ req.omitted > 0)
    BY <1>2, <2>3 DEF SomeCaveat
  <2> QED
    BY <1>3, <2>4, <2>5
<1> QED
  BY <1>10, <1>11, <1>12, <1>13

(* So the analysis of a content that does not contradict is guarded. *)
LEMMA AnalysesAreGuarded ==
    ASSUME NEW r \in Reports, NEW req, Represents(req, r), NEW content, IsContent(content), ~Contradicts(content, req)
    PROVE  IsGuarded(ReportAnalysis(content, req), req, r) /\ ReportAnalysis(content, req) # None
<1>1. PICK said : said = ReportAnalysis(content, req)
  OBVIOUS
<1>2. PICK ids : ids = Take(InTurn(req.ids), MaxGroups)
  OBVIOUS
<1>3. PICK doing : doing = IF content.recovered THEN <<>> ELSE FindingActions(content, req)
  OBVIOUS
<1>4. said = [content |-> Guarded(content, req), remote |-> provider.remote, ids |-> ToSet(ids), actions |-> doing]
  BY <1>1, <1>2, <1>3 DEF ReportAnalysis
<1>5. said.content = Guarded(content, req) /\ said.ids = ToSet(ids) /\ said.actions = doing
  BY <1>4
<1>6. said # None
  <2>1. "content" \in DOMAIN said /\ "content" \notin DOMAIN None
    BY <1>4 DEF None
  <2> QED
    BY <2>1
<1>7. PICK S : S = req.ids /\ IsFiniteSet(S) /\ \A id \in S : \E f \in ToSet(r.findings) : id = f.id
  BY DEF Represents
<1>8. Numbers(S)
  BY <1>7, ReportsAssumption DEF Numbers
<1>9. InTurn(S) \in Seq(S)
  BY <1>7, <1>8, InTurnKeeps
<1>10. IsList(InTurn(S)) /\ \A id \in ToSet(InTurn(S)) : id \in S
  BY <1>9, SeqIsList
<1>11. \A id \in ToSet(ids) : id \in S
  <2>1. \A id \in ToSet(Take(InTurn(S), MaxGroups)) : id \in ToSet(InTurn(S))
    BY <1>10, TakenIsList, RequestLimitsAssumption
  <2> QED
    BY <1>2, <1>7, <1>10, <2>1
<1>12. \A id \in ToSet(doing) : id \in S
  <2>1. CASE content.recovered
    BY <1>3, <2>1, NoneIsList
  <2>2. CASE ~content.recovered
    BY <1>3, <1>7, <2>2, ActionsAreSent
  <2> QED
    BY <2>1, <2>2
<1>13. said.ids \cup ToSet(said.actions) \subseteq {f.id : f \in ToSet(r.findings)} \cap req.ids
  BY <1>5, <1>7, <1>11, <1>12
<1>14. IsGuarded(said, req, r)
  BY <1>5, <1>13, GuardsHold DEF IsGuarded
<1> QED
  BY <1>1, <1>6, <1>14

(* An answer that is valid does not contradict the report. *)
LEMMA ValidIsGuarded ==
    ASSUME NEW r \in Reports, NEW req, Represents(req, r), NEW a \in Answers, Detail(a, req) = "valid"
    PROVE  /\ IsGuarded(ReportAnalysis(CompatibleAnswer(a), req), req, r)
           /\ ReportAnalysis(CompatibleAnswer(a), req) # None
<1>1. PICK bad \in BOOLEAN : bad <=> Contradicts(CompatibleAnswer(a), req)
  OBVIOUS
<1>2. PICK readable \in BOOLEAN : readable <=> Readable(a)
  OBVIOUS
<1>3. a.text.present \in BOOLEAN
  BY AnswersAssumption
<1>4. Detail(a, req) = CASE ~readable -> "invalid_json"
                         [] readable /\ ~a.text.present -> "schema_mismatch"
                         [] readable /\ a.text.present /\ bad -> "severity_contradiction"
                         [] OTHER -> "valid"
  BY <1>1, <1>2 DEF Detail
<1>5. ~bad
  BY <1>2, <1>3, <1>4
<1> QED
  BY <1>1, <1>5, AnswersAreContent, AnalysesAreGuarded

(* Nor does what is recovered from one that is not. *)
LEMMA RecoveredIsGuarded ==
    ASSUME NEW r \in Reports, NEW req, Represents(req, r), NEW a \in Answers
    PROVE  /\ IsGuarded(RecoveredAnalysis(a, req), req, r)
           /\ RecoveredAnalysis(a, req) # None
<1> DEFINE Of(text) == [text |-> text, causes |-> <<>>, actions |-> <<>>,
                        caveat |-> [areas |-> {}, selection |-> FALSE, full |-> FALSE], recovered |-> TRUE]
<1>1. EmptyRecovery \in SomeText /\ EmptyRecovery.minor = FALSE
  BY DEF EmptyRecovery, SomeText
<1>2. PICK text \in SomeText : text = PlainTextRecovery(a)
  BY <1>1, AnswersAssumption DEF PlainTextRecovery, SomeText
<1>3. \A t \in SomeText : IsContent(Of(t)) /\ Of(t).text = t
  <2>1. [areas |-> {}, selection |-> FALSE, full |-> FALSE] \in SomeCaveat
    BY DEF SomeCaveat
  <2> QED
    BY <2>1, NoneIsList DEF IsContent
<1> HIDE DEF Of
<1>4. ~Contradicts(Of(EmptyRecovery), req)
  BY <1>1, <1>3 DEF Contradicts
<1>5. PICK chosen : /\ chosen = IF Contradicts(Of(text), req) THEN Of(EmptyRecovery) ELSE Of(text)
                    /\ RecoveredAnalysis(a, req) = ReportAnalysis(chosen, req)
  BY <1>2 DEF RecoveredAnalysis, Of
<1>6. IsContent(chosen) /\ ~Contradicts(chosen, req)
  BY <1>1, <1>2, <1>3, <1>4, <1>5
<1> QED
  BY <1>5, <1>6, AnalysesAreGuarded

(* Once a request is made, it represents the report, and a provider on     *)
(* another host has consent; what was sent may leave.                      *)
Requested ==
    astep \in {"ask", "simplify", "again", "read", "reread"} \/ sent # <<>> =>
      Represents(request, report) /\ (provider.remote => aiConfig.consent)

SentIsBounded == IsList(sent) /\ \A s \in ToSet(sent) : MaySend(s, request, report)

(* How often a model was asked, at each place. *)
AskedSoFar ==
    /\ Len(sent) <= 3
    /\ astep \in {"start", "list", "ask"} => Len(sent) = 0
    /\ astep = "simplify" => Len(sent) <= 1
    /\ astep \in {"again", "read"} => Len(sent) <= 2

(* There is an outcome at the end, and one. *)
OneOutcome ==
    /\ astep # "done" => analysis = None /\ failure.code = ""
    /\ analysis # None => failure.code = "" /\ IsGuarded(analysis, request, report)
    /\ astep = "done" /\ sent # <<>> => ((analysis = None) # (failure.code = ""))

AdvisoryInv ==
    \/ AdvisoryIdle
    \/ /\ report \in Reports
       /\ astep \in {"start", "list", "ask", "simplify", "again", "read", "reread", "done", "abandoned"}
       /\ Requested /\ SentIsBounded /\ AskedSoFar /\ OneOutcome
       /\ astep \in {"read", "reread"} => answer \in Answers

(* Nothing was sent at first. *)
LEMMA AdviceStarts == AdvisoryInit => AdvisoryInv
<1> SUFFICES ASSUME AdvisoryInit
             PROVE  AdvisoryInv
  OBVIOUS
<1>1. report \in Reports /\ astep = "start" /\ sent = <<>> /\ analysis = None /\ failure.code = ""
  BY DEF AdvisoryInit
<1>2. Requested
  BY <1>1 DEF Requested
<1>3. SentIsBounded
  BY <1>1, NoneIsList DEF SentIsBounded
<1>4. AskedSoFar
  <2>1. PICK n : n = Len(sent) /\ n = 0
    BY <1>1, NoneIsList
  <2>2. Len(sent) <= 3
    BY <2>1
  <2>3. astep = "start" /\ Len(sent) = 0
    BY <1>1, <2>1
  <2> QED
    BY <2>2, <2>3 DEF AskedSoFar
<1>5. OneOutcome
  BY <1>1 DEF OneOutcome
<1> QED
  BY <1>1, <1>2, <1>3, <1>4, <1>5 DEF AdvisoryInv

(* Where nothing is asked, nothing is sent. *)
LEMMA PreparingKeeps == AdvisoryInv /\ (Disabled \/ CannotCreate \/ CreatesProvider \/ ListsModels) => AdvisoryInv'
<1> SUFFICES ASSUME AdvisoryInv, Disabled \/ CannotCreate \/ CreatesProvider \/ ListsModels
             PROVE  AdvisoryInv'
  OBVIOUS
<1>1. /\ astep \in {"start", "list"} /\ report \in Reports
      /\ Requested /\ SentIsBounded /\ AskedSoFar /\ OneOutcome
  BY DEF AdvisoryInv, AdvisoryIdle, Disabled, CannotCreate, CreatesProvider, ListsModels
<1>2. /\ report' = report /\ aiConfig' = aiConfig /\ sent' = sent /\ analysis' = analysis
      /\ astep' \in {"ask", "list", "done"}
  BY DEF Disabled, CannotCreate, CreatesProvider, ListsModels, Fails
<1>3. sent = <<>> /\ Len(sent) = 0 /\ analysis = None /\ failure.code = ""
  <2>1. IsList(sent) /\ Len(sent) = 0
    BY <1>1 DEF SentIsBounded, AskedSoFar
  <2>2. sent = <<>>
    BY <2>1 DEF IsList
  <2> QED
    BY <1>1, <2>1, <2>2 DEF OneOutcome
<1>4. SentIsBounded'
  BY <1>2, <1>3, NoneIsList DEF SentIsBounded
<1>5. AskedSoFar'
  <2>1. PICK n : n = Len(sent') /\ n = 0
    BY <1>2, <1>3
  <2> QED
    BY <2>1 DEF AskedSoFar
<1>6. OneOutcome'
  <2>1. astep' # "done" => failure' = failure
    BY DEF Disabled, CannotCreate, CreatesProvider, ListsModels, Fails
  <2> QED
    BY <1>2, <1>3, <2>1 DEF OneOutcome
<1>7. Requested'
  <2>1. CASE astep' = "ask"
    <3>1. CreatesProvider /\ request' = BuildAnalysisRequest(report)
      BY <2>1 DEF Disabled, CannotCreate, CreatesProvider, ListsModels, Fails
    <3>2. Represents(request', report)
      BY <1>1, <3>1, RequestsRepresent
    <3>3. provider'.remote => aiConfig.consent
      BY <3>1 DEF CreatesProvider, Creatable, ValidUrl
    <3> QED
      BY <1>2, <3>2, <3>3 DEF Requested
  <2>2. CASE astep' # "ask"
    BY <1>2, <1>3, <2>2 DEF Requested
  <2> QED
    BY <2>1, <2>2
<1> QED
  BY <1>1, <1>2, <1>4, <1>5, <1>6, <1>7 DEF AdvisoryInv

(* A model is asked three times at most, each time with what may leave.    *)
LEMMA AskingModelsKeeps ==
    AdvisoryInv /\ (RequestRefused \/ BadRequest \/ Answered \/ Contentless) => AdvisoryInv'
<1> SUFFICES ASSUME AdvisoryInv, RequestRefused \/ BadRequest \/ Answered \/ Contentless
             PROVE  AdvisoryInv'
  OBVIOUS
<1>1. Asking /\ Sends
  BY DEF RequestRefused, BadRequest, Answered, Contentless
<1>2. /\ astep \in {"ask", "simplify", "again"} /\ report \in Reports
      /\ Requested /\ SentIsBounded /\ AskedSoFar /\ OneOutcome
  BY <1>1 DEF AdvisoryInv, AdvisoryIdle, Asking
<1>3. /\ report' = report /\ aiConfig' = aiConfig /\ provider' = provider /\ request' = request /\ analysis' = analysis
  BY DEF RequestRefused, BadRequest, Answered, Contentless
<1>4. /\ astep' \in {"simplify", "read", "reread", "done"}
      /\ astep' = "simplify" => astep = "ask"
      /\ astep' = "read" => astep \in {"ask", "simplify"}
      /\ astep' \in {"read", "reread"} => answer' \in Answers
      /\ astep' = "done" => failure'.code # ""
      /\ astep' # "done" => failure' = failure
  <2>1. CASE RequestRefused
    <3>1. PICK code : code # "" /\ failure' = [code |-> code, detail |-> ""] /\ astep' = "done"
      BY <2>1 DEF RequestRefused, Fails
    <3> QED
      BY <3>1
  <2>2. CASE BadRequest
    <3>1. CASE astep = "ask" /\ provider.protocol \in {"ollama", "openai"}
      BY <2>2, <3>1 DEF BadRequest
    <3>2. CASE ~(astep = "ask" /\ provider.protocol \in {"ollama", "openai"})
      <4>1. PICK code : /\ code = IF astep = "simplify" THEN "ai_provider_request_invalid" ELSE "ai_provider_http_400"
                        /\ failure' = [code |-> code, detail |-> ""] /\ astep' = "done"
        BY <2>2, <3>2 DEF BadRequest, Fails
      <4>2. code # ""
        BY <4>1
      <4> QED
        BY <4>1, <4>2
    <3> QED
      BY <3>1, <3>2
  <2>3. CASE Answered
    <3>1. \E r \in Responses : answer' \in Coerced(Content(r))
      BY <2>3 DEF Answered
    <3>2. \A content : Coerced(content) \subseteq Answers
      BY DEF Coerced
    <3>3. answer' \in Answers
      BY <3>1, <3>2
    <3>4. astep' = (IF astep = "again" THEN "reread" ELSE "read") /\ failure' = failure
      BY <2>3 DEF Answered
    <3> QED
      BY <1>2, <3>3, <3>4
  <2>4. CASE Contentless
    BY <2>4 DEF Contentless, Fails
  <2> QED
    BY <2>1, <2>2, <2>3, <2>4
<1>5. PICK s : s = Messages(request, astep)
  OBVIOUS
<1>6. MaySend(s, request, report)
  BY <1>2, <1>5, MessagesMayLeave DEF Requested
<1>7. PICK before : before = sent /\ IsList(before) /\ Len(before) \in Nat /\ \A x \in ToSet(before) : MaySend(x, request, report)
  BY <1>2, ListFacts DEF SentIsBounded
<1>8. sent' = Append(before, s)
  BY <1>1, <1>5, <1>7 DEF Sends
<1>9. PICK after : after = Append(before, s)
  OBVIOUS
<1>10. /\ IsList(after) /\ Len(after) = Len(before) + 1 /\ after[Len(before) + 1] = s
       /\ \A i \in 1..Len(before) : after[i] = before[i]
  BY <1>7, <1>9, AppendedIsList
<1>11. \A x \in ToSet(after) : MaySend(x, request, report)
  <2> SUFFICES ASSUME NEW x \in ToSet(after)
               PROVE  MaySend(x, request, report)
    OBVIOUS
  <2>1. PICK i \in 1..Len(before) + 1 : after[i] = x
    BY <1>10, ListFacts
  <2>2. CASE i = Len(before) + 1
    BY <1>6, <1>10, <2>1, <2>2
  <2>3. CASE i # Len(before) + 1
    <3>1. i \in 1..Len(before)
      BY <1>7, <2>3
    <3>2. x \in ToSet(before)
      BY <1>7, <1>10, <2>1, <3>1, ListFacts
    <3> QED
      BY <1>7, <3>2
  <2> QED
    BY <2>2, <2>3
<1>12. SentIsBounded'
  BY <1>3, <1>8, <1>9, <1>10, <1>11 DEF SentIsBounded
<1>13. Requested'
  BY <1>2, <1>3 DEF Requested
<1>14. AskedSoFar'
  <2>1. PICK n \in Nat : n = Len(sent) /\ Len(sent') = n + 1
    BY <1>7, <1>8, <1>9, <1>10
  <2>2. /\ astep = "ask" => n = 0
        /\ astep = "simplify" => n <= 1
        /\ astep = "again" => n <= 2
    BY <1>2, <2>1 DEF AskedSoFar
  <2>3. n <= 2
    BY <1>2, <2>2
  <2>4. astep' = "simplify" => n = 0
    BY <1>4, <2>2
  <2>5. astep' = "read" => n <= 1
    BY <1>4, <2>1, <2>2
  <2>6. astep' \notin {"start", "list", "ask", "again"}
    BY <1>4
  <2> QED
    BY <2>1, <2>3, <2>4, <2>5, <2>6 DEF AskedSoFar
<1>15. OneOutcome'
  BY <1>2, <1>3, <1>4 DEF OneOutcome
<1> QED
  BY <1>2, <1>3, <1>4, <1>12, <1>13, <1>14, <1>15 DEF AdvisoryInv

(* What is read is guarded, and a wait that is abandoned has no outcome.   *)
LEMMA ReadingAnswersKeeps ==
    AdvisoryInv /\ (Abandoned \/ ReadsAnswer \/ ReadsAgain) => AdvisoryInv'
<1> SUFFICES ASSUME AdvisoryInv, Abandoned \/ ReadsAnswer \/ ReadsAgain
             PROVE  AdvisoryInv'
  OBVIOUS
<1>1. /\ astep \in {"ask", "simplify", "again", "read", "reread"} /\ report \in Reports
      /\ Requested /\ SentIsBounded /\ AskedSoFar /\ OneOutcome
      /\ astep \in {"read", "reread"} => answer \in Answers
  BY DEF AdvisoryInv, AdvisoryIdle, Abandoned, ReadsAnswer, ReadsAgain, Asking
<1>2. /\ report' = report /\ aiConfig' = aiConfig /\ provider' = provider /\ request' = request /\ sent' = sent
      /\ failure' = failure /\ astep' \in {"abandoned", "again", "done"}
  BY DEF Abandoned, ReadsAnswer, ReadsAgain
<1>3. Represents(request, report) /\ (provider.remote => aiConfig.consent)
  BY <1>1 DEF Requested
<1>4. /\ astep' # "done" => analysis' = None
      /\ astep' = "done" => analysis' # None /\ IsGuarded(analysis', request, report)
      /\ astep' = "again" => astep = "read"
  <2>1. CASE Abandoned
    BY <1>1, <2>1 DEF Abandoned, OneOutcome
  <2>2. CASE ReadsAnswer
    <3>1. CASE Detail(answer, request) = "valid"
      <4>1. analysis' = ReportAnalysis(CompatibleAnswer(answer), request) /\ astep' = "done" /\ answer \in Answers
        BY <1>1, <2>2, <3>1 DEF ReadsAnswer
      <4> QED
        BY <1>1, <1>3, <3>1, <4>1, ValidIsGuarded
    <3>2. CASE Detail(answer, request) # "valid"
      BY <1>1, <2>2, <3>2 DEF ReadsAnswer, OneOutcome
    <3> QED
      BY <3>1, <3>2
  <2>3. CASE ReadsAgain
    <3>1. astep' = "done" /\ answer \in Answers
      BY <1>1, <2>3 DEF ReadsAgain
    <3>2. CASE Detail(answer, request) = "valid"
      <4>1. analysis' = ReportAnalysis(CompatibleAnswer(answer), request)
        BY <2>3, <3>2 DEF ReadsAgain
      <4> QED
        BY <1>1, <1>3, <3>1, <3>2, <4>1, ValidIsGuarded
    <3>3. CASE Detail(answer, request) # "valid"
      <4>1. analysis' = RecoveredAnalysis(answer, request)
        BY <2>3, <3>3 DEF ReadsAgain
      <4> QED
        BY <1>1, <1>3, <3>1, <4>1, RecoveredIsGuarded
    <3> QED
      BY <3>2, <3>3
  <2> QED
    BY <2>1, <2>2, <2>3
<1>5. SentIsBounded' /\ Requested'
  BY <1>1, <1>2, <1>3 DEF SentIsBounded, Requested
<1>6. AskedSoFar'
  BY <1>1, <1>2, <1>4 DEF AskedSoFar
<1>7. OneOutcome'
  BY <1>1, <1>2, <1>4 DEF OneOutcome
<1> QED
  BY <1>1, <1>2, <1>5, <1>6, <1>7 DEF AdvisoryInv

LEMMA AdviceSteps == AdvisoryInv /\ [AdvisoryNext]_advisoryVars => AdvisoryInv'
<1>1. AdvisoryInv /\ UNCHANGED advisoryVars => AdvisoryInv'
  BY DEF AdvisoryInv, advisoryVars, AdvisoryIdle, Requested, SentIsBounded, AskedSoFar, OneOutcome
<1> QED
  BY <1>1, PreparingKeeps, AskingModelsKeeps, ReadingAnswersKeeps DEF AdvisoryNext

(* Of every state, all this says what is asked of it. *)
LEMMA AdviceIsHonest == AdvisoryInv => AdvisoryIsHonest
<1>1. CASE AdvisoryIdle
  BY <1>1 DEF AdvisoryIdle, AdvisoryIsHonest, OnlyBoundedRedactedContext, AnalysisIsGuarded
<1>2. ASSUME Requested, SentIsBounded, OneOutcome
      PROVE  AdvisoryIsHonest
  <2>1. OnlyBoundedRedactedContext
    BY <1>2 DEF Requested, SentIsBounded, OnlyBoundedRedactedContext, MaySend
  <2>2. AnalysisIsGuarded
    BY <1>2 DEF OneOutcome, AnalysisIsGuarded, IsGuarded
  <2> QED
    BY <1>2, <2>1, <2>2 DEF OneOutcome, AdvisoryIsHonest
<1> QED
  BY <1>1, <1>2 DEF AdvisoryInv

LEMMA AdviceIsTyped == AdvisoryInv => AdvisoryTypeOK
<1>1. CASE AdvisoryIdle
  <2>1. PICK n : n = Len(sent) /\ n = 0
    BY <1>1, NoneIsList DEF AdvisoryIdle
  <2>2. Len(sent) <= 3
    BY <2>1
  <2>3. astep = "off" /\ analysis = None
    BY <1>1 DEF AdvisoryIdle
  <2> QED
    BY <2>2, <2>3 DEF AdvisoryTypeOK
<1>2. CASE ~AdvisoryIdle
  BY <1>2 DEF AdvisoryInv, AdvisoryTypeOK, AskedSoFar, OneOutcome
<1> QED
  BY <1>1, <1>2

(* In the whole, the analysis is idle unless it is the part that runs.     *)
LEMMA AdviceInParts ==
    /\ Init => AdvisoryInv
    /\ AdvisoryInv /\ [Next]_partsVars => AdvisoryInv'
<1>1. AdvisoryIdle => AdvisoryInv
  BY DEF AdvisoryInv
<1>2. [Next]_partsVars => [AdvisoryNext]_advisoryVars
  BY DEF Next, StillIdle, partsVars
<1> QED
  BY <1>1, <1>2, AdviceStarts, AdviceSteps DEF Init, AllIdle

(* What is sent to a model fits its budget, the worst findings first, has  *)
(* no excerpt of a source in which a security rule struck, and leaves the  *)
(* host only with consent; and what the report then says of it is guarded, *)
(* or is a failure (ai_analysis/service.py, providers/adapters.py).        *)
THEOREM AdviceStaysHonest == PartsSpec => []AdvisoryIsHonest
<1>1. AdvisoryInv => AdvisoryIsHonest
  BY AdviceIsHonest
<1> QED
  BY <1>1, AdviceInParts, PTL DEF PartsSpec
===============================================================================
