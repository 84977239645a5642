------------------------------- MODULE Pipeline -------------------------------
(***************************************************************************)
(* StaticScanPipeline.run: one scan of a knowledge source.  It lists the   *)
(* items of a connector page by page, takes each item through retrieval,   *)
(* parsing, normalization and chunking, runs the enabled scanners over     *)
(* what came through, scores the result and reports.  Every stage may fail *)
(* without ending the scan; what the item had reached so far is undone.    *)
(*                                                                         *)
(* The event sink is called all along (Eventful), and may call cancel()    *)
(* whenever it is.  The flag is looked at in front of every page and every *)
(* item and after the last one.  The sink's exceptions are swallowed.      *)
(*                                                                         *)
(* Items stand for documents too: a document's id is a hash of the item's  *)
(* id and its content.                                                     *)
(***************************************************************************)
EXTENDS Naturals, FiniteSets

CONSTANTS
    Items,           \* what the connector can list
    MaxItems,        \* maximum_discovered_files
    NoItem,
    Configurations   \* the pairs <<single_source, enabled scanners>> to consider

ASSUME MaxItemsAssumption == MaxItems \in Nat \ {0}
ASSUME NoItemAssumption == NoItem \notin Items
ASSUME ItemsAssumption == IsFiniteSet(Items)

VARIABLES
    single,          \* single_source: the source is one file
    enabled,         \* scanners the configuration enables
    pc,              \* where run is
    cancelled,       \* set by cancel()
    found,           \* items listed so far
    todo,            \* items of the loop not yet reached
    item,            \* the item in hand
    documents,       \* the document list
    parsed,          \* keys of parser_results
    normalized,      \* keys of normalized_results
    chunked,         \* documents that have chunks
    warned,          \* some parser, normalizer or chunker warned
    skipped,         \* skipped items, with the stage that skipped them
    errors,          \* stages with an error
    ran,             \* scanners whose result is in the report
    report           \* what _finalize returns

config == <<single, enabled>>
work == <<documents, parsed, normalized, chunked>>
log == <<warned, skipped, errors>>
pipelineVars == <<config, pc, cancelled, found, todo, item, work, log, ran, report>>

-------------------------------------------------------------------------------
Scanners == {"security", "exact", "near", "quality"}

ASSUME ConfigurationsAssumption == Configurations \subseteq BOOLEAN \X SUBSET Scanners

DuplicateScanners == {"exact", "near"}
ItemStages == {"retrieval", "parsing", "normalization", "chunking"}
Stages == {"discovery"} \cup ItemStages

(* Errors that make the scan fail. *)
Fatal == {"source", "no_documents"}

Errors == Fatal \cup ItemStages \cup Scanners

(* The checks of assessment_coverage, each with the scanner that makes it. *)
Checks == {"static_security", "chunk_quality", "within_exact", "within_near",
           "cross_exact", "cross_near"}

ScannerOf == [static_security |-> "security", chunk_quality |-> "quality",
              within_exact |-> "exact", within_near |-> "near",
              cross_exact |-> "exact", cross_near |-> "near"]

Collection == {"cross_exact", "cross_near"}

NoReport == [status |-> "none", assessed |-> {}]

-------------------------------------------------------------------------------
(* The source: describe, health_check, list_items. *)

OpenSource ==
    /\ pc = "source"
    /\ pc' = "discover"
    /\ UNCHANGED <<config, found, todo, item, work, log, ran, report>>

SourceUnavailable ==
    /\ pc = "source"
    /\ errors' = errors \cup {"source"}
    /\ pc' = "finalize"
    /\ UNCHANGED <<config, found, todo, item, work, warned, skipped, ran, report>>

(* What was listed is forgotten, the warnings are not. *)
ListingFails ==
    /\ pc = "discover"
    /\ ~cancelled
    /\ errors' = errors \cup {"source"}
    /\ pc' = "finalize"
    /\ UNCHANGED <<config, found, todo, item, work, warned, skipped, ran, report>>

(* The first MaxItems items, in the order of the pages. *)
Truncations(earlier, page) ==
    IF Cardinality(earlier \cup page) <= MaxItems THEN {earlier \cup page}
    ELSE {S \in SUBSET (earlier \cup page) : earlier \subseteq S /\ Cardinality(S) = MaxItems}

(* Mutant of ListPage: the loop goes on at the limit. *)
ListPage_NoLimit(warns) ==
    /\ pc = "discover"
    /\ ~cancelled
    /\ \E page \in SUBSET (Items \ found), more \in BOOLEAN :
           /\ found' = found \cup page
           /\ todo' = found'
           /\ pc' = IF more THEN "discover" ELSE "items"
    /\ skipped' = IF warns THEN skipped \cup {<<NoItem, "discovery">>} ELSE skipped
    /\ UNCHANGED <<config, item, work, warned, errors, ran, report>>

ListPage(warns) ==
    /\ pc = "discover"
    /\ ~cancelled
    /\ \E page \in SUBSET (Items \ found), more \in BOOLEAN :
           /\ found' \in Truncations(found, page)
           /\ todo' = found'
           /\ pc' = IF more /\ Cardinality(found \cup page) < MaxItems
                    THEN "discover" ELSE "items"
    /\ skipped' = IF warns THEN skipped \cup {<<NoItem, "discovery">>} ELSE skipped
    /\ UNCHANGED <<config, item, work, warned, errors, ran, report>>

StopsListing ==
    /\ pc = "discover"
    /\ cancelled
    /\ pc' = "items"
    /\ UNCHANGED <<config, found, todo, item, work, log, ran, report>>

-------------------------------------------------------------------------------
(* The loop over the items. *)

Skips(i, stage) == skipped' = skipped \cup {<<i, stage>>}

(* An item that is too large, or that no parser is registered for. *)
PassesOver(i, stage) ==
    /\ pc = "items" /\ ~cancelled /\ i \in todo
    /\ todo' = todo \ {i}
    /\ Skips(i, stage)
    /\ UNCHANGED <<config, pc, found, item, work, warned, errors, ran, report>>

RetrievalFails(i) ==
    /\ pc = "items" /\ ~cancelled /\ i \in todo
    /\ todo' = todo \ {i}
    /\ Skips(i, "retrieval")
    /\ errors' = errors \cup {"retrieval"}
    /\ UNCHANGED <<config, pc, found, item, work, warned, ran, report>>

Retrieves(i) ==
    /\ pc = "items" /\ ~cancelled /\ i \in todo
    /\ todo' = todo \ {i}
    /\ item' = i
    /\ pc' = "parse"
    /\ UNCHANGED <<config, found, work, log, ran, report>>

(* Undone: the item is in none of the results, and reported as skipped. *)
Drops(stage) ==
    /\ errors' = errors \cup {stage}
    /\ Skips(item, stage)
    /\ item' = NoItem
    /\ pc' = "items"
    /\ UNCHANGED <<config, found, todo, warned, ran, report>>

ParseFails ==
    /\ pc = "parse"
    /\ Drops("parsing")
    /\ UNCHANGED work

Warns == warned' \in {warned, TRUE}

Parses ==
    /\ pc = "parse"
    /\ documents' = documents \cup {item}
    /\ parsed' = parsed \cup {item}
    /\ pc' = "normalize"
    /\ Warns
    /\ UNCHANGED <<config, found, todo, item, normalized, chunked, skipped, errors, ran, report>>

(* Mutant of NormalizeFails: the parser's result is left behind. *)
NormalizeFails_KeepsParsed ==
    /\ pc = "normalize"
    /\ Drops("normalization")
    /\ documents' = documents \ {item}
    /\ UNCHANGED <<parsed, normalized, chunked>>

NormalizeFails ==
    /\ pc = "normalize"
    /\ Drops("normalization")
    /\ documents' = documents \ {item}
    /\ parsed' = parsed \ {item}
    /\ UNCHANGED <<normalized, chunked>>

Normalizes ==
    /\ pc = "normalize"
    /\ normalized' = normalized \cup {item}
    /\ pc' = "chunk"
    /\ Warns
    /\ UNCHANGED <<config, found, todo, item, documents, parsed, chunked, skipped, errors, ran, report>>

(* Mutant of ChunkFails: the document is left behind. *)
ChunkFails_KeepsDocument ==
    /\ pc = "chunk"
    /\ Drops("chunking")
    /\ normalized' = normalized \ {item}
    /\ parsed' = parsed \ {item}
    /\ UNCHANGED <<documents, chunked>>

ChunkFails ==
    /\ pc = "chunk"
    /\ Drops("chunking")
    /\ documents' = documents \ {item}
    /\ normalized' = normalized \ {item}
    /\ parsed' = parsed \ {item}
    /\ UNCHANGED chunked

Chunks ==
    /\ pc = "chunk"
    /\ chunked' = chunked \cup {item}
    /\ item' = NoItem
    /\ pc' = "items"
    /\ Warns
    /\ UNCHANGED <<config, found, todo, documents, parsed, normalized, skipped, errors, ran, report>>

EndItems ==
    /\ pc = "items"
    /\ cancelled \/ todo = {}
    /\ pc' = IF cancelled THEN "finalize_cancelled" ELSE "security"
    /\ errors' = IF ~cancelled /\ documents = {} THEN errors \cup {"no_documents"} ELSE errors
    /\ UNCHANGED <<config, found, todo, item, work, warned, skipped, ran, report>>

-------------------------------------------------------------------------------
(* Assessment.  Each scanner is isolated from the others' failures. *)

Following == [security |-> "exact", exact |-> "near", near |-> "quality", quality |-> "score"]

Applies(s) == documents # {} /\ s \in enabled

(* An event is emitted before the security scan, after the duplicate scans *)
(* and after a successful quality scan.                                    *)
EventAround(s, succeeds) ==
    \/ s = "security" /\ Applies(s)
    \/ s = "near" /\ documents # {}
    \/ s = "quality" /\ Applies(s) /\ succeeds

Assesses(s) ==
    /\ pc = s
    /\ Applies(s)
    /\ s = "security" => documents \subseteq parsed \cap normalized
    /\ ran' = ran \cup {s}
    /\ pc' = Following[s]
    /\ UNCHANGED <<config, found, todo, item, work, log, report>>

ScannerFails(s) ==
    /\ pc = s
    /\ Applies(s)
    /\ errors' = errors \cup {s}
    /\ pc' = Following[s]
    /\ UNCHANGED <<config, found, todo, item, work, warned, skipped, ran, report>>

NotApplied(s) ==
    /\ pc = s
    /\ ~Applies(s)
    /\ pc' = Following[s]
    /\ UNCHANGED <<config, found, todo, item, work, log, ran, report>>

Scores ==
    /\ pc = "score"
    /\ pc' = "finalize"
    /\ UNCHANGED <<config, found, todo, item, work, log, ran, report>>

-------------------------------------------------------------------------------
(* _finalize. *)

(* Mutant of Status: skipped items do not count as warnings. *)
Status_IgnoresSkips(isCancelled) ==
    IF isCancelled THEN "cancelled"
    ELSE IF errors \cap Fatal # {} \/ documents = {} THEN "failed"
    ELSE IF errors # {} \/ warned THEN "completed_with_warnings"
    ELSE "completed"

Status(isCancelled) ==
    IF isCancelled THEN "cancelled"
    ELSE IF errors \cap Fatal # {} \/ documents = {} THEN "failed"
    ELSE IF errors # {} \/ skipped # {} \/ warned THEN "completed_with_warnings"
    ELSE "completed"

(* Mutant of Assessed: a failed duplicate scan is not looked at. *)
Assessed_IgnoresFailure ==
    {c \in Checks :
        /\ CASE c \in {"static_security", "chunk_quality"} -> ScannerOf[c] \in ran
             [] OTHER -> ScannerOf[c] \in enabled
        /\ c \in Collection => ~single /\ Cardinality(documents) # 1}

(* The duplicate checks go by the configuration and by the recorded errors. *)
Assessed ==
    {c \in Checks :
        /\ CASE c \in {"static_security", "chunk_quality"} -> ScannerOf[c] \in ran
             [] OTHER -> ScannerOf[c] \in enabled /\ errors \cap DuplicateScanners = {}
        /\ c \in Collection => ~single /\ Cardinality(documents) # 1}

Finalize ==
    /\ pc \in {"finalize", "finalize_cancelled"}
    /\ report' = [status |-> Status(pc = "finalize_cancelled"), assessed |-> Assessed]
    /\ pc' = "done"
    /\ UNCHANGED <<config, found, todo, item, work, log, ran>>

-------------------------------------------------------------------------------
Init ==
    /\ \E c \in Configurations : single = c[1] /\ enabled = c[2]
    /\ pc = "source"
    /\ cancelled = FALSE
    /\ found = {} /\ todo = {} /\ item = NoItem
    /\ documents = {} /\ parsed = {} /\ normalized = {} /\ chunked = {}
    /\ warned = FALSE /\ skipped = {} /\ errors = {}
    /\ ran = {}
    /\ report = NoReport

(* The steps that call the event sink ... *)
Eventful ==
    \/ OpenSource \/ SourceUnavailable
    \/ ListPage(TRUE)
    \/ \E i \in Items : \/ PassesOver(i, "retrieval") \/ PassesOver(i, "parsing")
                        \/ RetrievalFails(i) \/ Retrieves(i)
    \/ ParseFails \/ Parses \/ Normalizes \/ Chunks
    \/ \E s \in Scanners :
           \/ EventAround(s, TRUE) /\ Assesses(s)
           \/ EventAround(s, FALSE) /\ (ScannerFails(s) \/ NotApplied(s))
    \/ Scores
    \/ Finalize

(* ... and those that do not. *)
Quiet ==
    \/ ListPage(FALSE) \/ ListingFails \/ StopsListing
    \/ NormalizeFails \/ ChunkFails
    \/ EndItems
    \/ \E s \in Scanners :
           \/ ~EventAround(s, TRUE) /\ Assesses(s)
           \/ ~EventAround(s, FALSE) /\ (ScannerFails(s) \/ NotApplied(s))

(* The sink may call cancel() on any event. *)
Run ==
    \/ Eventful /\ cancelled' \in {cancelled, TRUE}
    \/ Quiet /\ UNCHANGED cancelled

Finished == pc = "done" /\ UNCHANGED pipelineVars

Spec == Init /\ [][Run \/ Finished]_pipelineVars

-------------------------------------------------------------------------------
(* Properties. *)

PCs == {"source", "discover", "items", "parse", "normalize", "chunk", "score",
        "finalize", "finalize_cancelled", "done"} \cup Scanners

InHand == {"parse", "normalize", "chunk"}

TypeOK ==
    /\ single \in BOOLEAN /\ enabled \subseteq Scanners
    /\ pc \in PCs
    /\ cancelled \in BOOLEAN
    /\ found \subseteq Items /\ Cardinality(found) <= MaxItems
    /\ todo \subseteq found
    /\ item \in IF pc \in InHand THEN found \ todo ELSE {NoItem}
    /\ documents \subseteq Items /\ parsed \subseteq Items
    /\ normalized \subseteq Items /\ chunked \subseteq Items
    /\ warned \in BOOLEAN
    /\ skipped \subseteq (Items \cup {NoItem}) \X Stages
    /\ errors \subseteq Errors
    /\ ran \subseteq enabled
    /\ report.status \in {"none", "completed", "completed_with_warnings", "failed", "cancelled"}
    /\ report.assessed \subseteq Checks

SkippedItems == {p[1] : p \in skipped} \ {NoItem}

InProgress == {item} \ {NoItem}

(* Every item the loop has reached is either a document of the report or   *)
(* listed as skipped, never both and never neither, whatever stage failed. *)
Accounting ==
    /\ documents \cap SkippedItems = {}
    /\ documents \cup SkippedItems \cup InProgress = found \ todo

(* What later stages look up by document id is there for every document    *)
(* and for no other: a stage that fails undoes all that was done before.   *)
ResultsAligned ==
    /\ parsed = documents
    /\ normalized = IF pc = "normalize" THEN documents \ InProgress ELSE documents
    /\ chunked = documents \ InProgress

(* A scan reported as completed has turned every item of its list into a   *)
(* document, and every enabled scanner has run over all of them.           *)
CompletedMeansAll ==
    report.status = "completed" =>
        documents = found /\ documents # {} /\ ran = enabled /\ errors = {}

(* Of a scan that was neither cancelled nor failed, the report claims a    *)
(* check only if the scanner behind it has run without an error.           *)
AssessedChecksRan ==
    report.status \in {"completed", "completed_with_warnings"} =>
        \A c \in report.assessed : ScannerOf[c] \in ran \ errors

(* The same of every report: a check that was not made is not_assessed,    *)
(* never successful by assumption.                                         *)
NotAssessedUnlessRun ==
    \A c \in report.assessed : ScannerOf[c] \in ran

===============================================================================
