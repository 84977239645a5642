------------------------------ MODULE Calibration ------------------------------
(***************************************************************************)
(* The calibration of the security rules (quality/calibration.py): every   *)
(* labelled case of a corpus is scanned by itself, and what the rules said *)
(* is counted against the labels, in all and by rule, language and format. *)
(***************************************************************************)
EXTENDS Cuts

CONSTANTS
    Manifests,       \* sequences of cases: [id, place, language, format, expected]
    RuleIds,         \* rules a scan may say something by
    RulePack         \* the version of the rule pack the scans report

ASSUME ManifestAssumption ==
    /\ IsFiniteSet(RuleIds)
    /\ \A cases \in Manifests : cases \in Seq({cases[i] : i \in DOMAIN cases})
                               /\ \A i \in DOMAIN cases : IsFiniteSet(cases[i].expected)

VARIABLES
    manifest,        \* the cases
    kstep,           \* "start", "scan", "done", "refused" or "off"
    outputs,         \* [case, predicted] of the cases scanned
    packs,           \* versions of the rule packs they were scanned with
    calibration      \* the report, or NoCalibration

calibrationVars == <<manifest, kstep, outputs, packs, calibration>>

NoCalibration == [cases |-> 0]
Cells == {"true_positive", "false_positive", "false_negative", "true_negative"}
-------------------------------------------------------------------------------
(* validate_case_ids: one case per id. *)
UniqueCases(cases) == \A i, j \in DOMAIN cases : i # j => cases[i].id # cases[j].id

(* All paths are resolved before the first case is scanned.                *)
Resolvable(cases) == \A i \in DOMAIN cases : cases[i].place = "file"

ReadsManifest ==
    /\ kstep = "start"
    /\ kstep' = IF UniqueCases(manifest) /\ manifest # <<>> /\ Resolvable(manifest) THEN "scan" ELSE "refused"
    /\ UNCHANGED <<manifest, outputs, packs, calibration>>

(* A scan that could not read its file predicts nothing, and has no pack.  *)
ScansCase(predicted, version) ==
    /\ kstep = "scan" /\ Len(outputs) < Len(manifest)
    /\ outputs' = Append(outputs, [case |-> manifest[Len(outputs) + 1], predicted |-> predicted])
    /\ packs' = packs \cup version
    /\ UNCHANGED <<manifest, kstep, calibration>>
-------------------------------------------------------------------------------
(* _count over the rows and rules given. *)

CellOf(row, rule) ==
    IF rule \in row.case.expected
    THEN IF rule \in row.predicted THEN "true_positive" ELSE "false_negative"
    ELSE IF rule \in row.predicted THEN "false_positive" ELSE "true_negative"

Counted(rows, ids) ==
    [c \in Cells |-> Cardinality({pair \in rows \X ids : CellOf(outputs[pair[1]], pair[2]) = c})]

(* _ratio and _metrics: shares in percent, none of nothing.                *)
Ratio(part, whole) == IF whole = 0 THEN {} ELSE {(100 * part) \div whole}

Metrics(counts) ==
    LET tp == counts["true_positive"]
        fp == counts["false_positive"]
    IN  [counts |-> counts, precision |-> Ratio(tp, tp + fp), recall |-> Ratio(tp, tp + counts["false_negative"]),
         false_positive_rate |-> Ratio(fp, fp + counts["true_negative"]),
         f1 |-> Ratio(2 * tp, IF tp = 0 THEN 0 ELSE 2 * tp + fp + counts["false_negative"])]

Universe == UNION {outputs[i].case.expected \cup outputs[i].predicted : i \in DOMAIN outputs}

(* evaluate_calibration_cases, grouped by a field of the cases.            *)
SlicesOf(field) ==
    [v \in {outputs[i].case[field] : i \in DOMAIN outputs} |->
        Metrics(Counted({i \in DOMAIN outputs : outputs[i].case[field] = v}, Universe))]

Evaluates ==
    /\ kstep = "scan" /\ Len(outputs) = Len(manifest)
    /\ calibration' = [cases |-> Len(outputs), packs |-> packs,
                       aggregate |-> Metrics(Counted(DOMAIN outputs, Universe)),
                       by_rule |-> [r \in Universe |-> Metrics(Counted(DOMAIN outputs, {r}))],
                       by_language |-> SlicesOf("language"),
                       by_format |-> SlicesOf("format")]
    /\ kstep' = "done"
    /\ UNCHANGED <<manifest, outputs, packs>>
-------------------------------------------------------------------------------
CalibrationFresh == outputs = <<>> /\ packs = {} /\ calibration = NoCalibration

CalibrationIdle == manifest = <<>> /\ kstep = "off" /\ CalibrationFresh
CalibrationInit == manifest \in Manifests /\ kstep = "start" /\ CalibrationFresh

CalibrationNext ==
    \/ ReadsManifest
    \/ \E predicted \in SUBSET RuleIds : ScansCase(predicted, {RulePack})
    \/ ScansCase({}, {})
    \/ Evaluates
-------------------------------------------------------------------------------
(* Properties. *)

CalibrationTypeOK ==
    /\ kstep \in {"off", "start", "scan", "done", "refused"} /\ packs \subseteq {RulePack}
    /\ Len(outputs) <= Len(manifest)

Share(slices, cell) == [k \in DOMAIN slices |-> slices[k].counts[cell]]
Labels == [i \in DOMAIN manifest |-> Cardinality(manifest[i].expected)]

AddUp(slices) == \A c \in Cells : calibration.aggregate.counts[c] = Total(DOMAIN slices, Share(slices, c))

(* Every case is judged by every rule once: the counts by rule, by         *)
(* language and by format each add up to the counts in all, and the labels *)
(* are all found or missed (docs/quality-calibration.md).                  *)
CalibrationAddsUp ==
    kstep = "done" =>
        /\ AddUp(calibration.by_rule) /\ AddUp(calibration.by_language) /\ AddUp(calibration.by_format)
        /\ calibration.aggregate.counts["true_positive"] + calibration.aggregate.counts["false_negative"]
              = Total(DOMAIN manifest, Labels)
===============================================================================
