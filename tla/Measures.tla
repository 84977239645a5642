-------------------------------- MODULE Measures --------------------------------
(***************************************************************************)
(* What is computed over finished scans: the scores of a scan (scoring.py),*)
(* the history of reports (storage/repository.py, application/history.py,  *)
(* reporting/compatibility.py) and the comparison of two of them           *)
(* (history/service.py).                                                   *)
(*                                                                         *)
(* The source changes between scans: problems come and go.  A scan finds   *)
(* the problems its settings look for, in the documents it could read.     *)
(* Scores are in hundredths of a point, confidences and weights in         *)
(* percent.                                                                *)
(***************************************************************************)
EXTENDS Cuts

CONSTANTS
    Problems,        \* problem -> [area, document, since, severity (by rule pack), confidence, legacy]
    Settings,        \* ways to scan: [source, type, areas, pack, policy, chunks, duplicates]
    Readings,        \* the sets of documents a scan manages to read
    Policies,        \* score policy version -> [weights, penalties, cap, minimum]
    OldReports,      \* reports an earlier release left in the history
    MaxReports       \* bound: reports ever saved

ScoreNames == {"security", "knowledge_quality", "efficiency"}
Gravities == {"critical", "high", "medium", "low"}
ScannedAreas == {"static_security", "chunk_quality", "duplicates"}
Areas == ScannedAreas \cup {"version_conflict"}
ScoredChunks == [overall : 0..100, tokens : Nat]

ASSUME MeasuresAssumption ==
    /\ MaxReports \in Nat /\ IsFiniteSet(DOMAIN Problems)
    /\ \A p \in DOMAIN Problems :
          /\ Problems[p].legacy \/ Problems[p].area \in ScannedAreas
          /\ Problems[p].confidence \in 0..100 /\ \A v \in DOMAIN Problems[p].severity : Problems[p].severity[v] \in Gravities
    /\ \A setting \in Settings :
          /\ setting.areas \subseteq ScannedAreas /\ setting.policy \in DOMAIN Policies
          /\ \A p \in DOMAIN Problems : setting.pack \in DOMAIN Problems[p].severity
          /\ setting.chunks \in Seq(ScoredChunks) /\ setting.duplicates \in SUBSET (0..100)
    /\ \A v \in DOMAIN Policies :
          /\ Policies[v].weights \in [ScoreNames -> Nat] /\ Policies[v].penalties \in [Gravities -> Nat]
          /\ Policies[v].cap \in Nat /\ Policies[v].minimum \in Nat

(* Rules come with a rule pack, and with no other check.                   *)
InPack(p, pack) == Problems[p].area = "static_security" => Problems[p].since <= pack

(* What an earlier release reported was there, and what it looked for and  *)
(* was there it reported.                                                  *)
ASSUME OldReportsAssumption ==
    \A old \in OldReports :
        /\ {"legacy", "pack", "coverage", "findings", "scores", "truth", "read"} \subseteq DOMAIN old
        /\ old.legacy = TRUE /\ old.coverage \in [Areas -> BOOLEAN]
        /\ \A f \in old.findings :
              /\ f.fingerprint \in DOMAIN Problems /\ f.area = Problems[f.fingerprint].area
              /\ f.area # "consistency" =>
                    f.area \in ScannedAreas /\ old.coverage[f.area] /\ InPack(f.fingerprint, old.pack)
        /\ \A p \in old.truth :
              /\ p \in DOMAIN Problems
              /\ /\ Problems[p].area \in Areas /\ old.coverage[Problems[p].area]
                 /\ InPack(p, old.pack) /\ Problems[p].document \in old.read
                 => \E f \in old.findings : f.fingerprint = p

VARIABLES
    problems,        \* what is wrong in the source now
    history,         \* the rows of scans: history id -> [display, report]
    saved,           \* reports ever saved
    comparing,       \* the request that compares: [step, baseline, candidate, report]
    compared         \* its answer, or NoAnswer

measuresVars == <<problems, history, saved, comparing, compared>>

Unscored == -1
NoPack == 0
NoAnswer == [kind |-> "none"]
NotFound == [kind |-> "missing"]
-------------------------------------------------------------------------------
(* ScoreCalculator. *)

SecurityFindings(findings) == {f \in findings : f.area = "static_security"}

(* The findings take their penalty, weighted by their confidence.          *)
Penalties(policy, findings) == [f \in SecurityFindings(findings) |-> policy.penalties[f.severity] * f.confidence]

SecurityScore(policy, findings) == Most(0, 10000 - Total(SecurityFindings(findings), Penalties(policy, findings)))

(* A mean of numbers by the weights of some of them.                       *)
Weighted(numbers, weights) == [x \in DOMAIN weights |-> numbers[x] * weights[x]]
Mean(S, numbers, weights) == Total(S, Weighted(numbers, weights)) \div Total(S, weights)

(* A chunk weighs what it has of tokens.                                   *)
ChunkScores(chunks) == [i \in DOMAIN chunks |-> 100 * chunks[i].overall]
ChunkWeights(chunks) == [i \in DOMAIN chunks |-> Most(1, chunks[i].tokens)]

KnowledgeScore(chunks) ==
    IF chunks = <<>> THEN Unscored ELSE Mean(DOMAIN chunks, ChunkScores(chunks), ChunkWeights(chunks))

(* The larger share of repeated content of the two duplicate scanners.     *)
EfficiencyScore(percentages) ==
    IF percentages = {} THEN Unscored ELSE Most(0, 10000 - 100 * Max(percentages))

Assessed(values) == {d \in ScoreNames : values[d] # Unscored}

Weighing(values, weights) == {d \in Assessed(values) : weights[d] > 0}

WeightedMean(values, weights) ==
    IF Weighing(values, weights) = {} THEN Unscored ELSE Mean(Weighing(values, weights), values, weights)

(* Too few dimensions give no overall score; one critical finding caps it. *)
OverallScore(policy, values, findings) ==
    LET mean == WeightedMean(values, policy.weights)
        critical == \E f \in SecurityFindings(findings) : f.severity = "critical"
    IN  IF Cardinality(Assessed(values)) < policy.minimum THEN Unscored
        ELSE IF critical /\ mean > policy.cap THEN policy.cap ELSE mean

DimensionScores(policy, setting, findings) ==
    [security |-> IF "static_security" \in setting.areas THEN SecurityScore(policy, findings) ELSE Unscored,
     knowledge_quality |-> IF "chunk_quality" \in setting.areas THEN KnowledgeScore(setting.chunks) ELSE Unscored,
     efficiency |-> IF "duplicates" \in setting.areas THEN EfficiencyScore(setting.duplicates) ELSE Unscored]

Calculate(setting, findings) ==
    LET policy == Policies[setting.policy]
        values == DimensionScores(policy, setting, findings)
    IN  [d \in ScoreNames \cup {"overall"} |->
            IF d = "overall" THEN OverallScore(policy, values, findings) ELSE values[d]]
-------------------------------------------------------------------------------
(* A scan and its report. `truth` and `read` record what the scan was up   *)
(* against; no code sees them.                                             *)

Looked(setting, read) ==
    {p \in DOMAIN Problems : /\ ~Problems[p].legacy
                             /\ Problems[p].area \in setting.areas
                             /\ InPack(p, setting.pack)
                             /\ Problems[p].document \in read}

FindingFor(p, pack) ==
    [fingerprint |-> p, area |-> Problems[p].area, severity |-> Problems[p].severity[pack], confidence |-> Problems[p].confidence]

ReportOf(setting, read) ==
    LET findings == {FindingFor(p, setting.pack) : p \in Looked(setting, read) \cap problems}
    IN  [source |-> setting.source, type |-> setting.type,
         pack |-> IF "static_security" \in setting.areas THEN setting.pack ELSE NoPack,
         policy |-> setting.policy, parsed |-> Cardinality(read),
         coverage |-> [a \in Areas |-> a \in setting.areas],
         findings |-> findings, scores |-> Calculate(setting, findings),
         legacy |-> FALSE, setting |-> setting, truth |-> problems, read |-> read]
-------------------------------------------------------------------------------
(* The history. *)

(* A report of an earlier release is read without the retired check, its   *)
(* overall score made anew: with the weights of that time, and no cap.     *)
RecomputedOverall(report, findings) ==
    LET extra == (3 * Cardinality(SecurityFindings(findings))) \div Most(1, report.parsed)
        weights == [security |-> 35 + Least(15, extra), knowledge_quality |-> 20, efficiency |-> 15]
    IN  WeightedMean(report.scores, weights)

WithoutRemovedConsistency(report) ==
    LET kept == {f \in report.findings : f.area # "consistency"}
    IN  IF ~report.legacy THEN report
        ELSE [report EXCEPT !.findings = kept, !.scores.overall = RecomputedOverall(report, kept),
                            !.coverage["version_conflict"] = FALSE]

NextDisplay == Max({history[h].display : h \in DOMAIN history} \cup {0}) + 1

SavesReport(report) ==
    /\ saved < MaxReports
    /\ saved' = saved + 1
    /\ history' = [h \in DOMAIN history \cup {saved'} |->
                     IF h = saved' THEN [display |-> NextDisplay, report |-> report] ELSE history[h]]
    /\ UNCHANGED <<problems, comparing, compared>>

DeletesReport(h) ==
    /\ h \in DOMAIN history /\ compared = NoAnswer
    /\ history' = [k \in DOMAIN history \ {h} |-> history[k]]
    /\ UNCHANGED <<problems, saved, comparing, compared>>

Stored(h) == IF h \in DOMAIN history THEN {WithoutRemovedConsistency(history[h].report)} ELSE {}
-------------------------------------------------------------------------------
(* compare_scans. *)

Compatible(before, after) == before.source = after.source /\ before.type = after.type

CoverageEqual(before, after) == before.coverage = after.coverage

RulePackEqual(before, after) == before.pack = after.pack

(* Mutant of ResolutionIsSafe: the rule packs are not compared.            *)
ResolutionIsSafe_AnyPack(before, after) == CoverageEqual(before, after)

ResolutionIsSafe(before, after) == CoverageEqual(before, after) /\ RulePackEqual(before, after)

Warnings(before, after) ==
    IF Compatible(before, after)
    THEN {w \in {"coverage", "rule_pack", "policy"} :
             \/ w = "coverage" /\ ~CoverageEqual(before, after)
             \/ w = "rule_pack" /\ ~RulePackEqual(before, after)
             \/ w = "policy" /\ before.policy # after.policy}
    ELSE {w \in {"source", "type"} : (w = "source" /\ before.source # after.source) \/ (w = "type" /\ before.type # after.type)}

Prints(findings) == {f.fingerprint : f \in findings}
SeverityIn(findings, p) == (CHOOSE f \in findings : f.fingerprint = p).severity

(* A difference is given where both have the score.                        *)
ScoreDelta(before, after, name) ==
    IF Unscored \in {before.scores[name], after.scores[name]} THEN {} ELSE {after.scores[name] - before.scores[name]}

CompareScans(before, after) ==
    LET old == Prints(before.findings)
        now == Prints(after.findings)
        lifecycle == Compatible(before, after)
        safe == ResolutionIsSafe(before, after)
    IN  [kind |-> "comparison", before |-> before, after |-> after,
         warnings |-> Warnings(before, after),
         new |-> IF lifecycle THEN now \ old ELSE {},
         resolved |-> IF lifecycle /\ safe THEN old \ now ELSE {},
         unobserved |-> IF lifecycle /\ ~safe THEN old \ now ELSE {},
         recurring |-> IF lifecycle THEN old \cap now ELSE {},
         changed |-> {p \in old \cap now : lifecycle /\ SeverityIn(before.findings, p) # SeverityIn(after.findings, p)},
         deltas |-> [d \in ScoreNames \cup {"overall"} |-> ScoreDelta(before, after, d)]]

(* HistoryApplicationService.compare reads one report, then the other. One *)
(* comparison, when the history is full, ends a behaviour.                 *)
BeginsComparing(baseline, candidate) ==
    /\ saved = MaxReports /\ comparing.step = "idle" /\ compared = NoAnswer
    /\ comparing' = [step |-> "read", candidate |-> candidate, report |-> Stored(baseline)]
    /\ UNCHANGED <<problems, history, saved, compared>>

EndsComparing ==
    /\ comparing.step = "read"
    /\ compared' = LET candidates == Stored(comparing.candidate)
                   IN  IF {} \in {comparing.report, candidates} THEN NotFound
                       ELSE CompareScans(CHOOSE r \in comparing.report : TRUE, CHOOSE r \in candidates : TRUE)
    /\ comparing' = [step |-> "idle"]
    /\ UNCHANGED <<problems, history, saved>>
-------------------------------------------------------------------------------
ProblemComesOrGoes(p) ==
    /\ saved < MaxReports
    /\ problems' \in {problems \cup {p}, problems \ {p}} \ {problems}
    /\ UNCHANGED <<history, saved, comparing, compared>>

(* Nothing is saved any more, and the one comparison is made.              *)
MeasuresIdle ==
    problems = {} /\ history = <<>> /\ saved = MaxReports /\ comparing = [step |-> "idle"] /\ compared = NotFound

MeasuresInit ==
    /\ problems \in SUBSET {p \in DOMAIN Problems : ~Problems[p].legacy}
    /\ \/ history = <<>> /\ saved = 0
       \/ \E old \in OldReports : history = [h \in {1} |-> [display |-> 1, report |-> old]] /\ saved = 1
    /\ comparing = [step |-> "idle"] /\ compared = NoAnswer

MeasuresNext ==
    \/ \E setting \in Settings, read \in Readings : SavesReport(ReportOf(setting, read))
    \/ \E p \in DOMAIN Problems : ~Problems[p].legacy /\ ProblemComesOrGoes(p)
    \/ \E h \in 1..MaxReports : DeletesReport(h)
    \/ \E baseline, candidate \in 1..MaxReports : BeginsComparing(baseline, candidate)
    \/ EndsComparing
-------------------------------------------------------------------------------
(* Properties. *)

MeasuresTypeOK ==
    /\ problems \subseteq DOMAIN Problems /\ saved \in 0..MaxReports
    /\ DOMAIN history \subseteq 1..MaxReports
    /\ \A h \in DOMAIN history : /\ \A d \in Assessed(history[h].report.scores) : history[h].report.scores[d] \in 0..10000
                                 /\ history[h].display \in 1..MaxReports
    /\ comparing.step \in {"idle", "read"}

Comparison == compared.kind = "comparison"

(* A finding is called resolved only when its problem had left the source  *)
(* when the candidate was scanned, or its document was among those that    *)
(* scan could not read (docs/persistence.md:44-45).                        *)
ResolvedIsGone ==
    Comparison => \A p \in compared.resolved :
                     p \notin compared.after.truth \/ Problems[p].document \notin compared.after.read

(* Every finding of two comparable reports is in one class, and only one.  *)
EveryFindingIsClassed ==
    Comparison /\ Compatible(compared.before, compared.after) =>
        LET classes == <<compared.new, compared.resolved, compared.unobserved, compared.recurring>>
        IN  /\ UNION {classes[i] : i \in 1..4} = Prints(compared.before.findings) \cup Prints(compared.after.findings)
            /\ \A i, j \in 1..4 : i # j => classes[i] \cap classes[j] = {}

(* A score that moved without a warning moved because the source did:      *)
(* with the same problems, texts and documents read, it stays              *)
(* (docs/scoring.md: a change of method is no trend).                      *)
Alike(before, after) ==
    /\ ~before.legacy /\ ~after.legacy
    /\ before.truth = after.truth /\ before.read = after.read
    /\ before.setting.chunks = after.setting.chunks /\ before.setting.duplicates = after.setting.duplicates

UnwarnedChangeIsReal ==
    Comparison /\ compared.warnings = {} /\ Alike(compared.before, compared.after) =>
        compared.deltas.overall \subseteq {0}

(* More security findings never raise the overall score, and a critical    *)
(* one is not averaged away, in a report this release made.                *)
ScoresFall ==
    \A h, k \in DOMAIN history :
        LET one == history[h].report
            other == history[k].report
        IN  ~one.legacy /\ ~other.legacy =>
               /\ one.setting = other.setting /\ SecurityFindings(one.findings) \subseteq SecurityFindings(other.findings)
                     => other.scores.overall <= one.scores.overall
               /\ (\E f \in SecurityFindings(one.findings) : f.severity = "critical")
                     => one.scores.overall <= Policies[one.policy].cap

(* The history and its comparisons say no more than the scans showed.      *)
HistoryIsHonest == ResolvedIsGone /\ EveryFindingIsClassed /\ UnwarnedChangeIsReal /\ ScoresFall
===============================================================================
