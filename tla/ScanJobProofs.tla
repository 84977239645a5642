----------------------------- MODULE ScanJobProofs -----------------------------
(***************************************************************************)
(* Proofs about Pipeline, for every set of items, every limit and every    *)
(* configuration, and about ScanJob, for any worker id, budget, lease      *)
(* duration and stall, any number of clients and requests, and whatever    *)
(* the pipeline scans.                                                     *)
(*                                                                         *)
(* The pipeline's properties rest on one inductive invariant: the type     *)
(* invariant, Accounting and ResultsAligned, which are inductive together, *)
(* and what the position in the scan says of the item list, the scanners   *)
(* and the report.  What this and the queue's own proofs show of their     *)
(* steps is used for the job as it stands: a step of a scan job is a step  *)
(* of the pipeline or starts a new one, and a step of the queue or one of  *)
(* the handler, which renews the lease from within.                        *)
(***************************************************************************)
EXTENDS ScanJob, FiniteSetTheorems, TLAPS

-------------------------------------------------------------------------------
(* The pipeline. *)

Next == Run \/ Finished

(* The positions behind a scanner. *)
Behind(s) ==
    CASE s = "security" -> {"exact", "near", "quality", "score", "finalize", "done"}
      [] s = "exact" -> {"near", "quality", "score", "finalize", "done"}
      [] s = "near" -> {"quality", "score", "finalize", "done"}
      [] s = "quality" -> {"score", "finalize", "done"}

Assessing == Scanners \cup {"score", "finalize"}

(* A scanner has a result or an error only behind its turn, and never      *)
(* both.                                                                   *)
ScannersInTurn ==
    /\ \A s \in Scanners : s \in ran \cup errors => pc \in Behind(s)
    /\ ran \cap errors = {}

(* Once assessment has begun, the items are through, and an enabled        *)
(* scanner that has had its turn has left a result or an error.            *)
AssessmentComplete ==
    pc \in Assessing /\ "source" \notin errors =>
        /\ todo = {}
        /\ documents # {} =>
               \A s \in enabled : pc \in Behind(s) => s \in ran \cup errors

(* Before the item loop, no item has been reached. *)
NothingReached == pc \in {"source", "discover"} => todo = found

(* The item in hand is not reported as skipped, and is a document once it  *)
(* has been parsed.                                                        *)
ItemInHand ==
    /\ InProgress \cap SkippedItems = {}
    /\ pc = "parse" => item \notin documents
    /\ pc \in {"normalize", "chunk"} => item \in documents

ReportAtEnd == report # NoReport => pc = "done"

IInv ==
    /\ TypeOK /\ Accounting /\ ResultsAligned
    /\ NothingReached /\ ItemInHand
    /\ ScannersInTurn /\ AssessmentComplete /\ ReportAtEnd
    /\ CompletedMeansAll /\ AssessedChecksRan

-------------------------------------------------------------------------------
(* What a step does to the skipped items. *)

(* Listing one more item as skipped adds this item. *)
LEMMA SkippedGrows ==
    ASSUME NEW i \in Items, NEW stage, Skips(i, stage)
    PROVE  SkippedItems' = SkippedItems \cup {i}
<1>1. i # NoItem /\ <<i, stage>>[1] = i
  BY NoItemAssumption
<1>2. skipped' = skipped \cup {<<i, stage>>}
  BY DEF Skips
<1>3. {p[1] : p \in skipped'} = {p[1] : p \in skipped} \cup {i}
  BY <1>1, <1>2
<1> QED BY <1>1, <1>3 DEF SkippedItems

(* A warning of the listing is about no item. *)
LEMMA SkippedKept ==
    ASSUME \/ UNCHANGED skipped
           \/ skipped' = skipped \cup {<<NoItem, "discovery">>}
    PROVE  SkippedItems' = SkippedItems
BY DEF SkippedItems

(* A step that leaves the items and their results alone keeps the books in *)
(* order.                                                                  *)
LEMMA BooksKept ==
    ASSUME IInv,
           UNCHANGED <<found, todo, item, documents, parsed, normalized, chunked, skipped>>,
           pc \notin InHand, pc' \notin InHand
    PROVE  Accounting' /\ ResultsAligned' /\ ItemInHand'
<1>1. SkippedItems' = SkippedItems
  BY SkippedKept
<1>2. Accounting'
  BY <1>1 DEF IInv, Accounting, InProgress
<1>3. ResultsAligned'
  BY DEF IInv, ResultsAligned, InProgress, InHand
<1>4. ItemInHand'
  BY <1>1 DEF IInv, ItemInHand, InProgress, InHand
<1> QED BY <1>2, <1>3, <1>4

(* Before its end, a scan has no report to be wrong about. *)
LEMMA NoReportYet ==
    ASSUME IInv, pc # "done", UNCHANGED report,
           pc' \in {"source", "discover"} => todo' = found'
    PROVE  ReportAtEnd' /\ NothingReached' /\ CompletedMeansAll' /\ AssessedChecksRan'
BY DEF IInv, NothingReached, ReportAtEnd, CompletedMeansAll, AssessedChecksRan, NoReport

(* Before assessment, no scanner has left anything and none is promised.   *)
LEMMA NotAssessing ==
    ASSUME IInv, pc \notin Assessing \cup {"done"}, pc' \notin Assessing \cup {"done"},
           UNCHANGED ran, errors' \ errors \subseteq ItemStages
    PROVE  ScannersInTurn' /\ AssessmentComplete'
BY DEF IInv, ScannersInTurn, AssessmentComplete, Assessing, Behind, Scanners, ItemStages, TypeOK

-------------------------------------------------------------------------------
(* The initial states satisfy the invariant. *)
LEMMA InitInvariant == Init => IInv
<1> SUFFICES ASSUME Init PROVE IInv
  OBVIOUS
<1>1. \E c \in Configurations : single = c[1] /\ enabled = c[2]
  BY DEF Init
<1>2. single \in BOOLEAN /\ enabled \subseteq Scanners
  BY <1>1, ConfigurationsAssumption
<1>3. TypeOK
  <2>1. found \subseteq Items /\ Cardinality(found) <= MaxItems
    BY MaxItemsAssumption, FS_EmptySet DEF Init
  <2>2. pc \in PCs /\ pc \notin InHand
    BY DEF Init, PCs, InHand
  <2>3. /\ report.status \in {"none", "completed", "completed_with_warnings", "failed", "cancelled"}
        /\ report.assessed \subseteq Checks
    BY DEF Init, NoReport
  <2> QED BY <1>2, <2>1, <2>2, <2>3 DEF Init, TypeOK
<1>4. Accounting /\ ResultsAligned /\ ItemInHand
  BY DEF Init, Accounting, ResultsAligned, ItemInHand, SkippedItems, InProgress
<1>5. NothingReached /\ ScannersInTurn /\ AssessmentComplete /\ ReportAtEnd
  BY DEF Init, NothingReached, ScannersInTurn, AssessmentComplete, ReportAtEnd, Assessing, Scanners
<1>6. CompletedMeansAll /\ AssessedChecksRan
  BY DEF Init, CompletedMeansAll, AssessedChecksRan, NoReport
<1> QED BY <1>3, <1>4, <1>5, <1>6 DEF IInv

-------------------------------------------------------------------------------
(* Every step keeps the invariant. *)

(* A step of the scan is one of its actions, whoever sets the flag.        *)
LEMMA StepIsAction ==
    ASSUME TypeOK, Run
    PROVE  /\ cancelled' \in BOOLEAN
           /\ \/ OpenSource \/ SourceUnavailable \/ ListingFails \/ StopsListing
              \/ \E warns \in BOOLEAN : ListPage(warns)
              \/ \E i \in Items, stage \in ItemStages : PassesOver(i, stage)
              \/ \E i \in Items : RetrievalFails(i) \/ Retrieves(i)
              \/ ParseFails \/ Parses \/ NormalizeFails \/ Normalizes \/ ChunkFails \/ Chunks
              \/ EndItems
              \/ \E s \in Scanners : Assesses(s) \/ ScannerFails(s) \/ NotApplied(s)
              \/ Scores \/ Finalize
BY DEF TypeOK, Run, Eventful, Quiet, ItemStages

(* The source and its list.                                                *)
LEMMA SourceStep ==
    ASSUME IInv, cancelled' \in BOOLEAN, OpenSource \/ SourceUnavailable \/ ListingFails \/ StopsListing
    PROVE  IInv'
<1>1. /\ UNCHANGED <<config, found, todo, item, documents, parsed, normalized, chunked, skipped, ran, report, warned>>
      /\ pc \in {"source", "discover"} /\ pc' \in {"discover", "items", "finalize"}
      /\ errors' \in {errors, errors \cup {"source"}}
      /\ pc' = "finalize" => "source" \in errors'
  BY DEF OpenSource, SourceUnavailable, ListingFails, StopsListing, config, work, log
<1>2. TypeOK'
  BY <1>1 DEF IInv, TypeOK, PCs, InHand, Errors, Fatal, config
<1>3. Accounting' /\ ResultsAligned' /\ ItemInHand'
  BY <1>1, BooksKept DEF InHand
<1>4. ScannersInTurn' /\ AssessmentComplete'
  <2>1. \A s \in Scanners : pc \notin Behind(s)
    BY <1>1 DEF Behind, Scanners
  <2>2. errors' \cap Scanners = errors \cap Scanners
    BY <1>1 DEF Scanners
  <2>3. ScannersInTurn'
    BY <1>1, <2>1, <2>2 DEF IInv, TypeOK, ScannersInTurn
  <2>4. AssessmentComplete'
    BY <1>1 DEF AssessmentComplete, Assessing, Scanners
  <2> QED BY <2>3, <2>4
<1>5. ReportAtEnd' /\ NothingReached' /\ CompletedMeansAll' /\ AssessedChecksRan'
  BY <1>1, NoReportYet DEF IInv, NothingReached
<1> QED BY <1>2, <1>3, <1>4, <1>5 DEF IInv

(* A page of the list.                                                     *)
LEMMA ListPageStep ==
    ASSUME IInv, cancelled' \in BOOLEAN, NEW warns \in BOOLEAN, ListPage(warns)
    PROVE  IInv'
<1>1. PICK page \in SUBSET (Items \ found) :
          /\ found' \in Truncations(found, page)
          /\ todo' = found'
  BY DEF ListPage
<1>2. /\ pc = "discover" /\ pc' \in {"discover", "items"}
      /\ UNCHANGED <<config, item, documents, parsed, normalized, chunked, warned, errors, ran, report>>
      /\ \/ UNCHANGED skipped
         \/ skipped' = skipped \cup {<<NoItem, "discovery">>}
  BY DEF ListPage, config, work
<1>3. found' \subseteq Items /\ Cardinality(found') <= MaxItems
  <2>1. CASE Cardinality(found \cup page) <= MaxItems
    BY <1>1, <2>1 DEF Truncations, IInv, TypeOK
  <2>2. CASE ~(Cardinality(found \cup page) <= MaxItems)
    BY <1>1, <2>2, MaxItemsAssumption DEF Truncations, IInv, TypeOK
  <2> QED BY <2>1, <2>2
<1>4. TypeOK'
  <2>1. skipped' \subseteq (Items \cup {NoItem}) \X Stages
    BY <1>2 DEF IInv, TypeOK, Stages
  <2>2. item' \in IF pc' \in InHand THEN found' \ todo' ELSE {NoItem}
    BY <1>2 DEF IInv, TypeOK, InHand
  <2> QED BY <1>1, <1>2, <1>3, <2>1, <2>2 DEF IInv, TypeOK, PCs, config
<1>5. documents = {} /\ SkippedItems = {} /\ InProgress = {}
  <2>1. found \ todo = {}
    BY DEF IInv, NothingReached, ListPage
  <2>2. item = NoItem
    BY <1>2 DEF IInv, TypeOK, InHand
  <2> QED BY <2>1, <2>2 DEF IInv, Accounting, InProgress
<1>6. SkippedItems' = SkippedItems
  BY <1>2, SkippedKept
<1>7. Accounting' /\ ResultsAligned' /\ ItemInHand'
  BY <1>1, <1>2, <1>5, <1>6 DEF IInv, TypeOK, Accounting, ResultsAligned, ItemInHand, InProgress, InHand
<1>8. ScannersInTurn' /\ AssessmentComplete'
  BY <1>2, NotAssessing DEF Assessing, Scanners
<1>9. ReportAtEnd' /\ NothingReached' /\ CompletedMeansAll' /\ AssessedChecksRan'
  BY <1>1, <1>2, NoReportYet
<1> QED BY <1>4, <1>7, <1>8, <1>9 DEF IInv

(* An item that is passed over, or cannot be retrieved.                    *)
LEMMA SkippingStep ==
    ASSUME IInv, cancelled' \in BOOLEAN, NEW i \in Items, NEW stage \in ItemStages,
           PassesOver(i, stage) \/ RetrievalFails(i)
    PROVE  IInv'
<1>1. /\ pc = "items" /\ pc' = "items" /\ i \in todo /\ todo' = todo \ {i}
      /\ UNCHANGED <<config, found, item, documents, parsed, normalized, chunked, warned, ran, report>>
      /\ errors' \in {errors, errors \cup {"retrieval"}}
  BY DEF PassesOver, RetrievalFails, config, work
<1>2. PICK where \in ItemStages : Skips(i, where)
  BY DEF PassesOver, RetrievalFails, ItemStages
<1>3. SkippedItems' = SkippedItems \cup {i}
  BY <1>2, SkippedGrows
<1>4. TypeOK'
  <2>1. skipped' \subseteq (Items \cup {NoItem}) \X Stages
    BY <1>2 DEF IInv, TypeOK, Skips, Stages
  <2>2. item' \in IF pc' \in InHand THEN found' \ todo' ELSE {NoItem}
    BY <1>1 DEF IInv, TypeOK, InHand
  <2> QED BY <1>1, <2>1, <2>2 DEF IInv, TypeOK, PCs, Errors, ItemStages, config
<1>5. Accounting' /\ ResultsAligned' /\ ItemInHand'
  BY <1>1, <1>3 DEF IInv, TypeOK, Accounting, ResultsAligned, ItemInHand, InProgress, InHand
<1>6. ScannersInTurn' /\ AssessmentComplete'
  BY <1>1, NotAssessing DEF Assessing, Scanners, ItemStages
<1>7. ReportAtEnd' /\ NothingReached' /\ CompletedMeansAll' /\ AssessedChecksRan'
  BY <1>1, NoReportYet
<1> QED BY <1>4, <1>5, <1>6, <1>7 DEF IInv

(* An item is taken in hand.                                               *)
LEMMA RetrievesStep ==
    ASSUME IInv, cancelled' \in BOOLEAN, NEW i \in Items, Retrieves(i)
    PROVE  IInv'
<1>1. /\ pc = "items" /\ pc' = "parse" /\ i \in todo /\ todo' = todo \ {i} /\ item' = i
      /\ UNCHANGED <<config, found, documents, parsed, normalized, chunked, warned, skipped, errors, ran, report>>
  BY DEF Retrieves, config, work, log
<1>2. item = NoItem /\ i # NoItem /\ i \in found
  BY <1>1, NoItemAssumption DEF IInv, TypeOK, InHand
<1>3. TypeOK'
  BY <1>1, <1>2 DEF IInv, TypeOK, PCs, InHand, config
<1>4. SkippedItems' = SkippedItems
  BY <1>1, SkippedKept
<1>5. Accounting' /\ ResultsAligned' /\ ItemInHand'
  BY <1>1, <1>2, <1>4 DEF IInv, TypeOK, Accounting, ResultsAligned, ItemInHand, InProgress, InHand
<1>6. ScannersInTurn' /\ AssessmentComplete'
  BY <1>1, NotAssessing DEF Assessing, Scanners
<1>7. ReportAtEnd' /\ NothingReached' /\ CompletedMeansAll' /\ AssessedChecksRan'
  BY <1>1, NoReportYet
<1> QED BY <1>3, <1>5, <1>6, <1>7 DEF IInv

(* A failed parse.                                                         *)
LEMMA ParseFailsStep ==
    ASSUME IInv, cancelled' \in BOOLEAN, ParseFails
    PROVE  IInv'
<1>1. /\ pc = "parse" /\ pc' = "items" /\ item' = NoItem
      /\ UNCHANGED <<config, found, todo, chunked, warned, ran, report>>
  BY DEF ParseFails, Drops, config, work
<1>2. item \in Items /\ item \in found \ todo /\ item # NoItem
  BY <1>1, NoItemAssumption DEF IInv, TypeOK, InHand
<1>3. PICK stage \in ItemStages : Skips(item, stage) /\ errors' = errors \cup {stage}
  BY DEF ParseFails, Drops, ItemStages
<1>4. SkippedItems' = SkippedItems \cup {item}
  BY <1>2, <1>3, SkippedGrows
<1>5. /\ documents' = documents \ {item} /\ parsed' = parsed \ {item}
      /\ normalized' = normalized \ {item}
  BY <1>1, <1>2 DEF ParseFails, work, IInv, ResultsAligned, ItemInHand, InProgress
<1>6. TypeOK'
  <2>1. skipped' \subseteq (Items \cup {NoItem}) \X Stages
    BY <1>2, <1>3 DEF IInv, TypeOK, Skips, Stages
  <2>2. item' \in IF pc' \in InHand THEN found' \ todo' ELSE {NoItem}
    BY <1>1 DEF InHand
  <2>3. errors' \subseteq Errors
    BY <1>3 DEF IInv, TypeOK, Errors
  <2> QED BY <1>1, <1>5, <2>1, <2>2, <2>3 DEF IInv, TypeOK, PCs, config
<1>7. Accounting' /\ ResultsAligned' /\ ItemInHand'
  BY <1>1, <1>2, <1>4, <1>5 DEF IInv, TypeOK, Accounting, ResultsAligned, ItemInHand, InProgress, InHand
<1>8. ScannersInTurn' /\ AssessmentComplete'
  BY <1>1, <1>3, NotAssessing DEF Assessing, Scanners
<1>9. ReportAtEnd' /\ NothingReached' /\ CompletedMeansAll' /\ AssessedChecksRan'
  BY <1>1, NoReportYet
<1> QED BY <1>6, <1>7, <1>8, <1>9 DEF IInv

(* The document is there.                                                  *)
LEMMA ParsesStep ==
    ASSUME IInv, cancelled' \in BOOLEAN, Parses
    PROVE  IInv'
<1>1. /\ pc = "parse" /\ pc' = "normalize"
      /\ UNCHANGED <<config, found, todo, item, skipped, errors, ran, report>>
  BY DEF Parses, config
<1>2. item \in Items /\ item \in found \ todo /\ item # NoItem
  BY <1>1, NoItemAssumption DEF IInv, TypeOK, InHand
<1>3. TypeOK'
  <2>1. /\ documents' \subseteq Items /\ parsed' \subseteq Items
        /\ normalized' \subseteq Items /\ chunked' \subseteq Items
    BY <1>2 DEF Parses, IInv, TypeOK
  <2>2. warned' \in BOOLEAN
    BY DEF Parses, Warns, IInv, TypeOK
  <2>3. item' \in IF pc' \in InHand THEN found' \ todo' ELSE {NoItem}
    BY <1>1, <1>2 DEF Parses, InHand
  <2> QED BY <1>1, <2>1, <2>2, <2>3 DEF IInv, TypeOK, PCs, config
<1>4. SkippedItems' = SkippedItems
  BY <1>1, SkippedKept
<1>5. Accounting'
  BY <1>1, <1>2, <1>4 DEF Parses, IInv, Accounting, ItemInHand, InProgress
<1>6. ResultsAligned'
  BY <1>1, <1>2 DEF Parses, IInv, ResultsAligned, ItemInHand, InProgress
<1>7. ItemInHand'
  BY <1>1, <1>2, <1>4 DEF Parses, IInv, ItemInHand, InProgress
<1>8. ScannersInTurn' /\ AssessmentComplete'
  BY <1>1, NotAssessing DEF Assessing, Scanners
<1>9. ReportAtEnd' /\ NothingReached' /\ CompletedMeansAll' /\ AssessedChecksRan'
  BY <1>1, NoReportYet
<1> QED BY <1>3, <1>5, <1>6, <1>7, <1>8, <1>9 DEF IInv

(* A failed normalization.                                                 *)
LEMMA NormalizeFailsStep ==
    ASSUME IInv, cancelled' \in BOOLEAN, NormalizeFails
    PROVE  IInv'
<1>1. /\ pc = "normalize" /\ pc' = "items" /\ item' = NoItem
      /\ UNCHANGED <<config, found, todo, chunked, warned, ran, report>>
  BY DEF NormalizeFails, Drops, config, work
<1>2. item \in Items /\ item \in found \ todo /\ item # NoItem
  BY <1>1, NoItemAssumption DEF IInv, TypeOK, InHand
<1>3. PICK stage \in ItemStages : Skips(item, stage) /\ errors' = errors \cup {stage}
  BY DEF NormalizeFails, Drops, ItemStages
<1>4. SkippedItems' = SkippedItems \cup {item}
  BY <1>2, <1>3, SkippedGrows
<1>5. /\ documents' = documents \ {item} /\ parsed' = parsed \ {item}
      /\ normalized' = normalized \ {item}
  BY <1>1, <1>2 DEF NormalizeFails, work, IInv, ResultsAligned, ItemInHand, InProgress
<1>6. TypeOK'
  <2>1. skipped' \subseteq (Items \cup {NoItem}) \X Stages
    BY <1>2, <1>3 DEF IInv, TypeOK, Skips, Stages
  <2>2. item' \in IF pc' \in InHand THEN found' \ todo' ELSE {NoItem}
    BY <1>1 DEF InHand
  <2>3. errors' \subseteq Errors
    BY <1>3 DEF IInv, TypeOK, Errors
  <2> QED BY <1>1, <1>5, <2>1, <2>2, <2>3 DEF IInv, TypeOK, PCs, config
<1>7. Accounting' /\ ResultsAligned' /\ ItemInHand'
  BY <1>1, <1>2, <1>4, <1>5 DEF IInv, TypeOK, Accounting, ResultsAligned, ItemInHand, InProgress, InHand
<1>8. ScannersInTurn' /\ AssessmentComplete'
  BY <1>1, <1>3, NotAssessing DEF Assessing, Scanners
<1>9. ReportAtEnd' /\ NothingReached' /\ CompletedMeansAll' /\ AssessedChecksRan'
  BY <1>1, NoReportYet
<1> QED BY <1>6, <1>7, <1>8, <1>9 DEF IInv

(* The document is normalized.                                             *)
LEMMA NormalizesStep ==
    ASSUME IInv, cancelled' \in BOOLEAN, Normalizes
    PROVE  IInv'
<1>1. /\ pc = "normalize" /\ pc' = "chunk"
      /\ UNCHANGED <<config, found, todo, item, skipped, errors, ran, report>>
  BY DEF Normalizes, config
<1>2. item \in Items /\ item \in found \ todo /\ item # NoItem
  BY <1>1, NoItemAssumption DEF IInv, TypeOK, InHand
<1>3. TypeOK'
  <2>1. /\ documents' \subseteq Items /\ parsed' \subseteq Items
        /\ normalized' \subseteq Items /\ chunked' \subseteq Items
    BY <1>2 DEF Normalizes, IInv, TypeOK
  <2>2. warned' \in BOOLEAN
    BY DEF Normalizes, Warns, IInv, TypeOK
  <2>3. item' \in IF pc' \in InHand THEN found' \ todo' ELSE {NoItem}
    BY <1>1, <1>2 DEF Normalizes, InHand
  <2> QED BY <1>1, <2>1, <2>2, <2>3 DEF IInv, TypeOK, PCs, config
<1>4. SkippedItems' = SkippedItems
  BY <1>1, SkippedKept
<1>5. Accounting'
  BY <1>1, <1>2, <1>4 DEF Normalizes, IInv, Accounting, ItemInHand, InProgress
<1>6. ResultsAligned'
  BY <1>1, <1>2 DEF Normalizes, IInv, ResultsAligned, ItemInHand, InProgress
<1>7. ItemInHand'
  BY <1>1, <1>2, <1>4 DEF Normalizes, IInv, ItemInHand, InProgress
<1>8. ScannersInTurn' /\ AssessmentComplete'
  BY <1>1, NotAssessing DEF Assessing, Scanners
<1>9. ReportAtEnd' /\ NothingReached' /\ CompletedMeansAll' /\ AssessedChecksRan'
  BY <1>1, NoReportYet
<1> QED BY <1>3, <1>5, <1>6, <1>7, <1>8, <1>9 DEF IInv

(* Failed chunking.                                                        *)
LEMMA ChunkFailsStep ==
    ASSUME IInv, cancelled' \in BOOLEAN, ChunkFails
    PROVE  IInv'
<1>1. /\ pc = "chunk" /\ pc' = "items" /\ item' = NoItem
      /\ UNCHANGED <<config, found, todo, chunked, warned, ran, report>>
  BY DEF ChunkFails, Drops, config, work
<1>2. item \in Items /\ item \in found \ todo /\ item # NoItem
  BY <1>1, NoItemAssumption DEF IInv, TypeOK, InHand
<1>3. PICK stage \in ItemStages : Skips(item, stage) /\ errors' = errors \cup {stage}
  BY DEF ChunkFails, Drops, ItemStages
<1>4. SkippedItems' = SkippedItems \cup {item}
  BY <1>2, <1>3, SkippedGrows
<1>5. /\ documents' = documents \ {item} /\ parsed' = parsed \ {item}
      /\ normalized' = normalized \ {item}
  BY <1>1, <1>2 DEF ChunkFails, work, IInv, ResultsAligned, ItemInHand, InProgress
<1>6. TypeOK'
  <2>1. skipped' \subseteq (Items \cup {NoItem}) \X Stages
    BY <1>2, <1>3 DEF IInv, TypeOK, Skips, Stages
  <2>2. item' \in IF pc' \in InHand THEN found' \ todo' ELSE {NoItem}
    BY <1>1 DEF InHand
  <2>3. errors' \subseteq Errors
    BY <1>3 DEF IInv, TypeOK, Errors
  <2> QED BY <1>1, <1>5, <2>1, <2>2, <2>3 DEF IInv, TypeOK, PCs, config
<1>7. Accounting' /\ ResultsAligned' /\ ItemInHand'
  BY <1>1, <1>2, <1>4, <1>5 DEF IInv, TypeOK, Accounting, ResultsAligned, ItemInHand, InProgress, InHand
<1>8. ScannersInTurn' /\ AssessmentComplete'
  BY <1>1, <1>3, NotAssessing DEF Assessing, Scanners
<1>9. ReportAtEnd' /\ NothingReached' /\ CompletedMeansAll' /\ AssessedChecksRan'
  BY <1>1, NoReportYet
<1> QED BY <1>6, <1>7, <1>8, <1>9 DEF IInv

(* The document is complete.                                               *)
LEMMA ChunksStep ==
    ASSUME IInv, cancelled' \in BOOLEAN, Chunks
    PROVE  IInv'
<1>1. /\ pc = "chunk" /\ pc' = "items"
      /\ UNCHANGED <<config, found, todo, skipped, errors, ran, report>>
  BY DEF Chunks, config
<1>2. item \in Items /\ item \in found \ todo /\ item # NoItem
  BY <1>1, NoItemAssumption DEF IInv, TypeOK, InHand
<1>3. TypeOK'
  <2>1. /\ documents' \subseteq Items /\ parsed' \subseteq Items
        /\ normalized' \subseteq Items /\ chunked' \subseteq Items
    BY <1>2 DEF Chunks, IInv, TypeOK
  <2>2. warned' \in BOOLEAN
    BY DEF Chunks, Warns, IInv, TypeOK
  <2>3. item' \in IF pc' \in InHand THEN found' \ todo' ELSE {NoItem}
    BY <1>1, <1>2 DEF Chunks, InHand
  <2> QED BY <1>1, <2>1, <2>2, <2>3 DEF IInv, TypeOK, PCs, config
<1>4. SkippedItems' = SkippedItems
  BY <1>1, SkippedKept
<1>5. Accounting'
  BY <1>1, <1>2, <1>4 DEF Chunks, IInv, Accounting, ItemInHand, InProgress
<1>6. ResultsAligned'
  BY <1>1, <1>2 DEF Chunks, IInv, ResultsAligned, ItemInHand, InProgress
<1>7. ItemInHand'
  BY <1>1, <1>2, <1>4 DEF Chunks, IInv, ItemInHand, InProgress
<1>8. ScannersInTurn' /\ AssessmentComplete'
  BY <1>1, NotAssessing DEF Assessing, Scanners
<1>9. ReportAtEnd' /\ NothingReached' /\ CompletedMeansAll' /\ AssessedChecksRan'
  BY <1>1, NoReportYet
<1> QED BY <1>3, <1>5, <1>6, <1>7, <1>8, <1>9 DEF IInv

(* The end of the item loop.                                               *)
LEMMA EndItemsStep ==
    ASSUME IInv, cancelled' \in BOOLEAN, EndItems
    PROVE  IInv'
<1>1. /\ pc = "items" /\ pc' \in {"finalize_cancelled", "security"}
      /\ UNCHANGED <<config, found, todo, item, documents, parsed, normalized, chunked, warned, skipped, ran, report>>
      /\ errors' \in {errors, errors \cup {"no_documents"}}
      /\ pc' = "security" => todo = {}
  BY DEF EndItems, config, work, IInv, TypeOK
<1>2. TypeOK'
  BY <1>1 DEF IInv, TypeOK, PCs, InHand, Scanners, Errors, Fatal, config
<1>3. Accounting' /\ ResultsAligned' /\ ItemInHand'
  BY <1>1, BooksKept DEF InHand
<1>4. ScannersInTurn' /\ AssessmentComplete'
  <2>1. \A s \in Scanners : pc \notin Behind(s) /\ pc' \notin Behind(s)
    BY <1>1 DEF Behind, Scanners
  <2>2. errors' \cap Scanners = errors \cap Scanners
    BY <1>1 DEF Scanners
  <2>3. ScannersInTurn'
    BY <1>1, <2>1, <2>2 DEF IInv, TypeOK, ScannersInTurn
  <2>4. AssessmentComplete'
    BY <1>1, <2>1 DEF IInv, TypeOK, AssessmentComplete, Assessing, Scanners, config
  <2> QED BY <2>3, <2>4
<1>5. ReportAtEnd' /\ NothingReached' /\ CompletedMeansAll' /\ AssessedChecksRan'
  BY <1>1, NoReportYet
<1> QED BY <1>2, <1>3, <1>4, <1>5 DEF IInv

(* A scanner has its turn.                                                 *)
LEMMA ScannerStep ==
    ASSUME IInv, cancelled' \in BOOLEAN, NEW s \in Scanners,
           Assesses(s) \/ ScannerFails(s) \/ NotApplied(s)
    PROVE  IInv'
<1>1. /\ pc = s /\ pc' = Following[s]
      /\ UNCHANGED <<config, found, todo, item, documents, parsed, normalized, chunked, warned, skipped, report>>
  BY DEF Assesses, ScannerFails, NotApplied, config, work, log
<1>2. /\ ran' \subseteq ran \cup {s} /\ errors' \subseteq errors \cup {s}
      /\ ran \subseteq ran' /\ errors \subseteq errors'
      /\ ran' = ran \/ errors' = errors
      /\ s \in ran' \ ran => s \in enabled
      /\ documents # {} /\ s \in enabled => s \in ran' \cup errors'
  BY DEF Assesses, ScannerFails, NotApplied, Applies, log
<1>3. pc' \in Assessing /\ pc' \notin {"normalize", "done"}
  BY <1>1 DEF Following, Assessing, Scanners
<1>4. TypeOK'
  <2>1. pc' \in PCs /\ pc \notin InHand /\ pc' \notin InHand
    BY <1>1, <1>3 DEF PCs, InHand, Assessing, Scanners
  <2>2. ran' \subseteq enabled' /\ errors' \subseteq Errors
    BY <1>1, <1>2 DEF IInv, TypeOK, Errors, config
  <2> QED BY <1>1, <2>1, <2>2 DEF IInv, TypeOK, config
<1>5. Accounting' /\ ResultsAligned' /\ ItemInHand'
  BY <1>1, <1>3, BooksKept DEF Scanners, InHand, Assessing
<1>6. /\ pc \notin Behind(s) /\ pc' \in Behind(s)
      /\ \A r \in Scanners \ {s} : pc' \in Behind(r) <=> pc \in Behind(r)
  BY <1>1 DEF Following, Behind, Scanners
<1>7. ScannersInTurn'
  BY <1>2, <1>6 DEF IInv, ScannersInTurn
<1>8. AssessmentComplete'
  BY <1>1, <1>2, <1>3, <1>6 DEF IInv, TypeOK, AssessmentComplete, Assessing, config
<1>9. ReportAtEnd' /\ NothingReached' /\ CompletedMeansAll' /\ AssessedChecksRan'
  BY <1>1, <1>3, NoReportYet DEF Scanners, Assessing
<1> QED BY <1>4, <1>5, <1>7, <1>8, <1>9 DEF IInv

(* The score.                                                              *)
LEMMA ScoresStep ==
    ASSUME IInv, cancelled' \in BOOLEAN, Scores
    PROVE  IInv'
<1>1. /\ pc = "score" /\ pc' = "finalize"
      /\ UNCHANGED <<config, found, todo, item, documents, parsed, normalized, chunked, warned, skipped, errors, ran, report>>
  BY DEF Scores, config, work, log
<1>2. TypeOK'
  BY <1>1 DEF IInv, TypeOK, PCs, InHand, config
<1>3. Accounting' /\ ResultsAligned' /\ ItemInHand'
  BY <1>1, BooksKept DEF InHand
<1>4. ScannersInTurn' /\ AssessmentComplete'
  BY <1>1 DEF IInv, ScannersInTurn, AssessmentComplete, Assessing, Behind, Scanners, TypeOK, config
<1>5. ReportAtEnd' /\ NothingReached' /\ CompletedMeansAll' /\ AssessedChecksRan'
  BY <1>1, NoReportYet
<1> QED BY <1>2, <1>3, <1>4, <1>5 DEF IInv

(* The report: here the promises of the scan are settled.                  *)
LEMMA FinalizeStep ==
    ASSUME IInv, cancelled' \in BOOLEAN, Finalize
    PROVE  IInv'
<1>1. /\ pc \in {"finalize", "finalize_cancelled"} /\ pc' = "done"
      /\ UNCHANGED <<config, found, todo, item, documents, parsed, normalized, chunked, warned, skipped, errors, ran>>
      /\ report' = [status |-> Status(pc = "finalize_cancelled"), assessed |-> Assessed]
  BY DEF Finalize, config, work, log
<1>2. TypeOK'
  <2>1. report'.status \in {"completed", "completed_with_warnings", "failed", "cancelled"}
    BY <1>1 DEF Status
  <2>2. report'.assessed \subseteq Checks
    BY <1>1 DEF Assessed
  <2> QED BY <1>1, <2>1, <2>2 DEF IInv, TypeOK, PCs, InHand, config
<1>3. Accounting' /\ ResultsAligned' /\ ItemInHand'
  BY <1>1, BooksKept DEF InHand
<1>4. ScannersInTurn' /\ AssessmentComplete' /\ ReportAtEnd' /\ NothingReached'
  BY <1>1 DEF IInv, NothingReached, ScannersInTurn, AssessmentComplete, ReportAtEnd, Assessing, Behind, Scanners
<1>5. SUFFICES ASSUME report'.status \in {"completed", "completed_with_warnings"}
               PROVE  CompletedMeansAll' /\ AssessedChecksRan'
  BY <1>2, <1>3, <1>4 DEF IInv, CompletedMeansAll, AssessedChecksRan
<1>6. /\ pc = "finalize" /\ errors \cap Fatal = {} /\ documents # {}
      /\ report'.status = "completed" => errors = {} /\ skipped = {}
  BY <1>1, <1>5 DEF Status
<1>7. todo = {} /\ \A s \in enabled : s \in ran \cup errors
  BY <1>6 DEF IInv, TypeOK, AssessmentComplete, Assessing, Behind, Fatal, Scanners
<1>8. CompletedMeansAll'
  <2>1. SUFFICES ASSUME report'.status = "completed"
                 PROVE  documents = found /\ documents # {} /\ ran = enabled /\ errors = {}
    BY <1>1 DEF CompletedMeansAll, config
  <2>2. SkippedItems = {} /\ InProgress = {}
    BY <1>6, <2>1 DEF IInv, TypeOK, SkippedItems, InProgress, InHand
  <2>3. documents = found
    BY <1>7, <2>2 DEF IInv, Accounting
  <2>4. ran = enabled
    BY <1>6, <1>7, <2>1 DEF IInv, TypeOK
  <2> QED BY <1>6, <2>1, <2>3, <2>4
<1>9. AssessedChecksRan'
  <2>1. SUFFICES ASSUME NEW c \in Assessed
                 PROVE  ScannerOf[c] \in ran \ errors
    BY <1>1 DEF AssessedChecksRan
  <2>2. CASE c \in {"static_security", "chunk_quality"}
    BY <2>1, <2>2 DEF Assessed, IInv, ScannersInTurn
  <2>3. CASE c \notin {"static_security", "chunk_quality"}
    <3>1. ScannerOf[c] \in enabled /\ ScannerOf[c] \in DuplicateScanners
      BY <2>1, <2>3 DEF Assessed, Checks, ScannerOf, DuplicateScanners
    <3>2. errors \cap DuplicateScanners = {}
      BY <2>1, <2>3 DEF Assessed
    <3> QED BY <1>7, <3>1, <3>2
  <2> QED BY <2>2, <2>3
<1> QED BY <1>2, <1>3, <1>4, <1>8, <1>9 DEF IInv

(* Every step of the specification. *)
LEMMA StepInvariant == IInv /\ [Next]_pipelineVars => IInv'
<1> SUFFICES ASSUME IInv, [Next]_pipelineVars PROVE IInv'
  OBVIOUS
<1>1. CASE Run
  <2>1. TypeOK
    BY DEF IInv
  <2> QED BY <1>1, <2>1, StepIsAction, SourceStep, ListPageStep, SkippingStep, RetrievesStep,
             ParseFailsStep, ParsesStep, NormalizeFailsStep, NormalizesStep, ChunkFailsStep,
             ChunksStep, EndItemsStep, ScannerStep, ScoresStep, FinalizeStep
             DEF ItemStages
<1>2. CASE UNCHANGED pipelineVars
  BY <1>2 DEF IInv, TypeOK, Accounting, ResultsAligned, ScannersInTurn, AssessmentComplete,
              ReportAtEnd, CompletedMeansAll, AssessedChecksRan, NothingReached, ItemInHand, SkippedItems, InProgress,
              pipelineVars, config, work, log
<1> QED BY <1>1, <1>2 DEF Next, Finished

(* The variables of a scan keep their types, and its list keeps to the      *)
(* limit on discovered files.                                              *)
THEOREM PipelineTypeCorrect == Spec => []TypeOK
<1>1. IInv => TypeOK
  BY DEF IInv
<1> QED BY <1>1, InitInvariant, StepInvariant, PTL DEF Spec, Next

(* Whatever stage fails for whatever item, every item that the loop has     *)
(* reached is a document of the report or listed as skipped, not both.     *)
THEOREM ItemsAccountedFor == Spec => []Accounting
<1>1. IInv => Accounting
  BY DEF IInv
<1> QED BY <1>1, InitInvariant, StepInvariant, PTL DEF Spec, Next

(* The results of parsing, normalization and chunking are there for every   *)
(* document and for nothing else.                                          *)
THEOREM NoHalfDocuments == Spec => []ResultsAligned
<1>1. IInv => ResultsAligned
  BY DEF IInv
<1> QED BY <1>1, InitInvariant, StepInvariant, PTL DEF Spec, Next

(* A completed scan has made a document of every item, and every enabled    *)
(* scanner has run.                                                        *)
THEOREM CompletedIsComplete == Spec => []CompletedMeansAll
<1>1. IInv => CompletedMeansAll
  BY DEF IInv
<1> QED BY <1>1, InitInvariant, StepInvariant, PTL DEF Spec, Next

(* The report of a scan that has run to its end claims a check only if the  *)
(* scanner behind it has run without an error.                             *)
THEOREM ChecksAreNotAssumed == Spec => []AssessedChecksRan
<1>1. IInv => AssessedChecksRan
  BY DEF IInv
<1> QED BY <1>1, InitInvariant, StepInvariant, PTL DEF Spec, Next



-------------------------------------------------------------------------------
(* The job. *)

QueueProofs == INSTANCE JobQueueProofs WITH
    Jobs <- {Job}, Workers <- {Worker}, MaxBeats <- 0

-------------------------------------------------------------------------------
(* The queue that the proofs are about is the queue of ScanJob. *)
LEMMA SameQueue ==
  /\ QueueProofs!Next <=> Queue!Next
  /\ QueueProofs!vars = Queue!vars
  /\ QueueProofs!TypeOK <=> Queue!TypeOK
  BY DEF Queue!Row, QueueProofs!Row, Queue!NoRow, QueueProofs!NoRow, Queue!Expired,
         QueueProofs!Expired, Queue!Unexpired, QueueProofs!Unexpired, Queue!Unleased,
         QueueProofs!Unleased, Queue!Completed, QueueProofs!Completed, Queue!Enqueue,
         QueueProofs!Enqueue, Queue!Swept, QueueProofs!Swept, Queue!Claimable,
         QueueProofs!Claimable, Queue!Before, QueueProofs!Before, Queue!NextInLine,
         QueueProofs!NextInLine, Queue!Granted, QueueProofs!Granted, Queue!Idle,
         QueueProofs!Idle, Queue!ClaimJob, QueueProofs!ClaimJob, Queue!ClaimNothing,
         QueueProofs!ClaimNothing, Queue!HoldsLease, QueueProofs!HoldsLease,
         Queue!AtCheckpoint, QueueProofs!AtCheckpoint, Queue!Renewed, QueueProofs!Renewed,
         Queue!Beats, QueueProofs!Beats, Queue!Counted, QueueProofs!Counted,
         Queue!CheckpointRenews, QueueProofs!CheckpointRenews, Queue!CheckpointCancels,
         QueueProofs!CheckpointCancels, Queue!CheckpointLosesLease,
         QueueProofs!CheckpointLosesLease, Queue!HandlerReturns, QueueProofs!HandlerReturns,
         Queue!HandlerFails, QueueProofs!HandlerFails, Queue!ExpectedStatus,
         QueueProofs!ExpectedStatus, Queue!MayFinish, QueueProofs!MayFinish,
         Queue!FinishReads, QueueProofs!FinishReads, Queue!FinishEscapes,
         QueueProofs!FinishEscapes, Queue!FinishWrites, QueueProofs!FinishWrites,
         Queue!Backoff, QueueProofs!Backoff, Queue!Failed, QueueProofs!Failed,
         Queue!FailWrites, QueueProofs!FailWrites, Queue!FailEscapes,
         QueueProofs!FailEscapes, Queue!Crash, QueueProofs!Crash, Queue!Restart,
         QueueProofs!Restart, Queue!Revive, QueueProofs!Revive, Queue!NoRequest,
         QueueProofs!NoRequest, Queue!Asks, QueueProofs!Asks, Queue!Answered,
         QueueProofs!Answered, Queue!CancelReads, QueueProofs!CancelReads, Queue!RetryReads,
         QueueProofs!RetryReads, Queue!CancelledAs, QueueProofs!CancelledAs, Queue!Requeued,
         QueueProofs!Requeued, Queue!CancelWrites, QueueProofs!CancelWrites,
         Queue!RetryWrites, QueueProofs!RetryWrites, Queue!SomethingWaits,
         QueueProofs!SomethingWaits, Queue!WithinStall, QueueProofs!WithinStall,
         Queue!NoLeaseRunsOut, QueueProofs!NoLeaseRunsOut, Queue!Tick, QueueProofs!Tick,
         Queue!RunOnce, QueueProofs!RunOnce, Queue!ClientStep, QueueProofs!ClientStep,
         Queue!Next, QueueProofs!Next, Queue!TypeOK, QueueProofs!TypeOK, Queue!WorkerPCs,
         QueueProofs!WorkerPCs, Queue!WorkerState, QueueProofs!WorkerState, Queue!Request,
         QueueProofs!Request, Queue!Active, QueueProofs!Active, Queue!Terminal,
         QueueProofs!Terminal, Queue!Statuses, QueueProofs!Statuses, Queue!Finishing,
         QueueProofs!Finishing, Queue!Writing, QueueProofs!Writing, Queue!WritePC,
         QueueProofs!WritePC, Queue!Stopped, QueueProofs!Stopped, Queue!vars,
         QueueProofs!vars

LEMMA SameLeases ==
  /\ QueueProofs!Leases!Next <=> Queue!Leases!Next
  /\ QueueProofs!Leases!vars = Queue!Leases!vars
  BY DEF Queue!Leases!Next, QueueProofs!Leases!Next, Queue!Leases!vars,
         QueueProofs!Leases!vars, Queue!Leases!Grant, QueueProofs!Leases!Grant,
         Queue!Leases!Free, QueueProofs!Leases!Free, Queue!Leases!Renew,
         QueueProofs!Leases!Renew, Queue!Leases!Drop, QueueProofs!Leases!Drop,
         Queue!Leases!Refill, QueueProofs!Leases!Refill, Queue!Leases!Pass,
         QueueProofs!Leases!Pass

(* What holds of the queue's own steps. *)
QueueInv == Queue!TypeOK /\ QueueProofs!RowsFresh

LEMMA QueueStep == QueueInv /\ [Queue!Next]_(Queue!vars) => QueueInv'
  <1>1. QueueProofs!TypeOK /\ [QueueProofs!Next]_(QueueProofs!vars) => QueueProofs!TypeOK'
    BY QueueProofs!TypeStep, NoneAssumption, IdentityAssumption, BudgetAssumption, TimeAssumption, 0 \in Nat
  <1>2. QueueProofs!TypeOK /\ QueueProofs!RowsFresh /\ [QueueProofs!Next]_(QueueProofs!vars)
            => QueueProofs!RowsFresh'
    BY QueueProofs!RowsStep, NoneAssumption, IdentityAssumption, BudgetAssumption, TimeAssumption, 0 \in Nat
  <1>3. (QueueProofs!TypeOK <=> Queue!TypeOK)'
    BY SameQueue, PTL
  <1>4. (QueueProofs!vars = Queue!vars)'
    BY SameQueue, PTL
  <1>5. [Queue!Next]_(Queue!vars) => [QueueProofs!Next]_(QueueProofs!vars)
    BY <1>4, SameQueue
  <1> QED
    BY <1>1, <1>2, <1>3, <1>5, SameQueue DEF QueueInv

LEMMA QueueLeaseStep ==
  QueueInv /\ [Queue!Next]_(Queue!vars) => [Queue!Leases!Next]_(Queue!Leases!vars)
  <1>1. QueueProofs!TypeOK /\ QueueProofs!RowsFresh /\ [QueueProofs!Next]_(QueueProofs!vars)
            => [QueueProofs!Leases!Next]_(QueueProofs!Leases!vars)
    BY QueueProofs!LeaseStep, NoneAssumption, IdentityAssumption, BudgetAssumption, TimeAssumption, 0 \in Nat
  <1>2. (QueueProofs!Leases!vars = Queue!Leases!vars)'
    BY SameLeases, PTL
  <1>3. (QueueProofs!vars = Queue!vars)'
    BY SameQueue, PTL
  <1>4. [Queue!Next]_(Queue!vars) => [QueueProofs!Next]_(QueueProofs!vars)
    BY <1>3, SameQueue
  <1>5. [QueueProofs!Leases!Next]_(QueueProofs!Leases!vars) => [Queue!Leases!Next]_(Queue!Leases!vars)
    BY <1>2, SameLeases
  <1> QED
    BY <1>1, <1>4, <1>5, SameQueue DEF QueueInv

-------------------------------------------------------------------------------
(* What the handler does to the queue: it may renew an unexpired lease,    *)
(* and may leave run_once's try block.                                     *)
HandlerStep ==
    /\ Running
    /\ \/ UNCHANGED worker
       \/ \E leaves \in {"fail", "cancel", "closing"} : ThisWorker(leaves)
    /\ UNCHANGED row \/ (Leased /\ row' = Queue!Renewed(Job))
    /\ UNCHANGED <<now, client>>

LEMMA ExecuteStep == Execute => HandlerStep
  BY DEF Execute, HandlerStep, Scans, BuildsReport, ChecksIn, CheckInCancels, CheckInLosesLease,
         Saves, Returns, Fails, Heartbeat, queueVars

LEMMA HandlerKeepsQueue == QueueInv /\ HandlerStep => QueueInv'
  <1> SUFFICES ASSUME QueueInv, HandlerStep PROVE QueueInv'
    OBVIOUS
  <1>0. Queue!TypeOK
    BY DEF QueueInv
  <1>1. worker[Worker].job = Job
    BY <1>0 DEF HandlerStep, Running, Queue!TypeOK, Queue!Stopped
  <1>2. row[Job] \in Queue!Row /\ now + LeaseDuration \in Nat /\ now + LeaseDuration # None
    BY <1>0, TimeAssumption, NoneAssumption DEF Queue!TypeOK
  <1>3. \/ UNCHANGED row
        \/ /\ Leased
           /\ row' = [row EXCEPT ![Job] = [row[Job] EXCEPT !.expires = now + LeaseDuration]]
    BY DEF HandlerStep, Queue!Renewed
  <1>4. row' \in [{Job} -> Queue!Row]
    BY <1>0, <1>2, <1>3 DEF Queue!TypeOK, Queue!Row
  <1>5. worker' \in [{Worker} -> Queue!WorkerState] /\ worker'[Worker].job = Job
    <2>1. \/ UNCHANGED worker
          \/ \E leaves \in {"fail", "cancel", "closing"} :
                worker' = [worker EXCEPT ![Worker] = [worker[Worker] EXCEPT !.pc = leaves]]
      BY DEF HandlerStep, ThisWorker
    <2>2. worker \in [{Worker} -> Queue!WorkerState]
      BY <1>0 DEF Queue!TypeOK
    <2> QED
      BY <1>1, <2>1, <2>2 DEF Queue!WorkerState, Queue!WorkerPCs, Queue!Finishing
  <1>6. Queue!TypeOK'
    BY <1>0, <1>4, <1>5 DEF Queue!TypeOK, HandlerStep
  <1>7. QueueProofs!RowsFresh'
    <2>1. QueueProofs!Fresh(row[Job])
      BY DEF QueueInv, QueueProofs!RowsFresh
    <2>2. Leased => row[Job].status \in {"running", "cancel_requested"}
      BY DEF Leased, Queue!HoldsLease, Queue!Active
    <2>3. QueueProofs!Fresh(row'[Job])
      BY <1>0, <1>2, <1>3, <2>1, <2>2 DEF QueueProofs!Fresh, QueueProofs!Terminal, Queue!Row, Queue!TypeOK
    <2> QED
      BY <2>3 DEF QueueProofs!RowsFresh
  <1> QED
    BY <1>6, <1>7 DEF QueueInv

LEMMA HandlerRenews ==
  QueueInv /\ HandlerStep => [Queue!Leases!Next]_(Queue!Leases!vars)
  <1> SUFFICES ASSUME QueueInv, HandlerStep PROVE Queue!Leases!Next \/ UNCHANGED Queue!Leases!vars
    OBVIOUS
  <1>0. row[Job] \in Queue!Row /\ row \in [{Job} -> Queue!Row]
    BY DEF QueueInv, Queue!TypeOK
  <1>1. CASE UNCHANGED row
    BY <1>1 DEF HandlerStep, Queue!Leases!vars
  <1>2. CASE Leased /\ row' = Queue!Renewed(Job)
    <2>1. row' = [row EXCEPT ![Job] = [row[Job] EXCEPT !.expires = now + LeaseDuration]]
      BY <1>2 DEF Queue!Renewed
    <2>2. row[Job].owner # None /\ row[Job].expires > now /\ now' = now
      BY <1>2, IdentityAssumption, NoneAssumption DEF Leased, Queue!HoldsLease, Queue!Unexpired, HandlerStep
    <2>3. LET r == [row[Job] EXCEPT !.expires = now + LeaseDuration]
          IN  r.owner = row[Job].owner /\ r.attempt = row[Job].attempt /\ r.expires = now + LeaseDuration
      BY <1>0 DEF Queue!Row
    <2>4. Queue!Leases!Renew(Job)
      BY <1>0, <2>1, <2>2, <2>3 DEF Queue!Leases!Renew
    <2> QED
      BY <2>4 DEF Queue!Leases!Next
  <1> QED
    BY <1>1, <1>2 DEF HandlerStep

(* A step of a scan job is one of these for the queue. *)
LEMMA ScanStepOfQueue == [ScanNext]_scanVars => [Queue!Next]_(Queue!vars) \/ HandlerStep
  <1> SUFFICES ASSUME [ScanNext]_scanVars PROVE [Queue!Next]_(Queue!vars) \/ HandlerStep
    OBVIOUS
  <1>1. CASE Execute
    BY <1>1, ExecuteStep
  <1>2. CASE Begins \/ QueueSteps \/ ClosingCancels \/ Finishes \/ Crashes
    <2>1. Queue!RunOnce(Worker) \/ Queue!Crash(Worker) \/ Queue!Restart(Worker) \/ Queue!Revive(Worker)
      BY <1>2 DEF Begins, QueueSteps, ClosingCancels, Finishes, Crashes, Queue!RunOnce
    <2> QED
      BY <2>1 DEF Queue!Next
  <1>3. CASE Retries \/ Others
    BY <1>3 DEF Retries, Others, Queue!Next, Queue!ClientStep
  <1>4. CASE UNCHANGED scanVars
    BY <1>4 DEF scanVars, queueVars, Queue!vars
  <1> QED
    BY <1>1, <1>2, <1>3, <1>4 DEF ScanNext

LEMMA InitQueue == ScanInit => QueueInv
  <1>1. Queue!Init => Queue!TypeOK
    BY DEF Queue!Init, Queue!TypeOK, Queue!NoRow, Queue!Row, Queue!Idle, Queue!NoRequest,
           Queue!WorkerState, Queue!Request, Queue!WorkerPCs
  <1>2. Queue!Init => QueueProofs!RowsFresh
    BY DEF Queue!Init, Queue!NoRow, QueueProofs!RowsFresh, QueueProofs!Fresh, QueueProofs!Terminal
  <1> QED
    BY <1>1, <1>2 DEF ScanInit, QueueInv

LEMMA QueueAlwaysConsistent == ScanSpec => []QueueInv
  BY InitQueue, ScanStepOfQueue, QueueStep, HandlerKeepsQueue, PTL DEF ScanSpec

(* The pipeline's events, which renew the lease from within a scan, still  *)
(* follow the lease protocol.                                              *)
THEOREM ScanLeaseRefinement == ScanSpec => ScanLeases
<1>1. ScanInit => Queue!Leases!Init
  BY DEF ScanInit, Queue!Init, Queue!NoRow, Queue!Leases!Init
<1>2. QueueInv /\ [ScanNext]_scanVars => [Queue!Leases!Next]_(Queue!Leases!vars)
  BY ScanStepOfQueue, QueueLeaseStep, HandlerRenews
<1> QED
  BY <1>1, <1>2, QueueAlwaysConsistent, PTL
     DEF ScanSpec, ScanLeases, Queue!LeaseSpec, Queue!Leases!Spec

-------------------------------------------------------------------------------
(* The scan itself: what Pipeline's proofs show holds of each scan that an *)
(* execution of the job makes.                                             *)
LEMMA FreshInvariant == IInv /\ FreshPipeline => IInv'
  <1> SUFFICES ASSUME IInv, FreshPipeline PROVE IInv'
    OBVIOUS
  <1>1. single' \in BOOLEAN /\ enabled' \subseteq Scanners
    BY DEF FreshPipeline, config, IInv, TypeOK
  <1>2. TypeOK'
    <2>1. found' \subseteq Items /\ Cardinality(found') <= MaxItems
      BY MaxItemsAssumption, FS_EmptySet DEF FreshPipeline
    <2>2. pc' \in PCs /\ pc' \notin InHand
      BY DEF FreshPipeline, PCs, InHand
    <2>3. /\ report'.status \in {"none", "completed", "completed_with_warnings", "failed", "cancelled"}
          /\ report'.assessed \subseteq Checks
      BY DEF FreshPipeline, NoReport
    <2> QED BY <1>1, <2>1, <2>2, <2>3 DEF FreshPipeline, TypeOK
  <1>3. Accounting' /\ ResultsAligned' /\ ItemInHand'
    BY DEF FreshPipeline, Accounting, ResultsAligned, ItemInHand, SkippedItems, InProgress
  <1>4. NothingReached' /\ ScannersInTurn' /\ AssessmentComplete' /\ ReportAtEnd'
    BY DEF FreshPipeline, NothingReached, ScannersInTurn, AssessmentComplete, ReportAtEnd,
           Assessing, Scanners
  <1>5. CompletedMeansAll' /\ AssessedChecksRan'
    BY DEF FreshPipeline, CompletedMeansAll, AssessedChecksRan, NoReport
  <1> QED BY <1>2, <1>3, <1>4, <1>5 DEF IInv

LEMMA ScanStepOfPipeline ==
  IInv /\ [ScanNext]_scanVars =>
      /\ Run \/ UNCHANGED pipelineVars \/ FreshPipeline
      /\ ~Scans => UNCHANGED pipelineVars \/ FreshPipeline
  <1> SUFFICES ASSUME IInv, [ScanNext]_scanVars
               PROVE  /\ Run \/ UNCHANGED pipelineVars \/ FreshPipeline
                      /\ ~Scans => UNCHANGED pipelineVars \/ FreshPipeline
    OBVIOUS
  <1>1. CASE Scans
    <2>1. cancelled \in BOOLEAN
      BY DEF IInv, TypeOK
    <2>2. Eventful /\ cancelled' = (cancelled \/ CancelAsked) => Run
      BY <2>1 DEF Run
    <2> QED
      BY <1>1, <2>2 DEF Scans, Run
  <1>2. CASE BuildsReport \/ ChecksIn \/ CheckInCancels \/ CheckInLosesLease \/ Saves \/ Returns \/ Fails
    BY <1>2 DEF BuildsReport, ChecksIn, CheckInCancels, CheckInLosesLease, Saves, Returns, Fails
  <1>3. CASE Begins \/ QueueSteps \/ ClosingCancels \/ Finishes \/ Crashes \/ Retries \/ Others
    BY <1>3 DEF Begins, QueueSteps, ClosingCancels, Finishes, Crashes, Retries, Others
  <1>4. CASE UNCHANGED scanVars
    BY <1>4 DEF scanVars
  <1> QED
    BY <1>1, <1>2, <1>3, <1>4 DEF ScanNext, Execute

LEMMA ScansAlwaysSound == ScanSpec => []IInv
  <1>1. ScanInit => IInv
    BY InitInvariant DEF ScanInit
  <1>2. IInv /\ [ScanNext]_scanVars => IInv'
    BY ScanStepOfPipeline, StepInvariant, FreshInvariant DEF Next
  <1> QED
    BY <1>1, <1>2, PTL DEF ScanSpec

(* The variables of a scan job keep their types, those of the scan and     *)
(* those of the queue.                                                     *)
THEOREM ScanTypeCorrect == ScanSpec => [](TypeOK /\ Queue!TypeOK)
<1>1. IInv => TypeOK
  BY DEF IInv
<1>2. QueueInv => Queue!TypeOK
  BY DEF QueueInv
<1> QED
  BY <1>1, <1>2, QueueAlwaysConsistent, ScansAlwaysSound, PTL

(* Every item a scan of a job has reached is a document with all of its    *)
(* results or is reported as skipped, also in a scan that a cancellation   *)
(* stops, a crash breaks off or a second attempt repeats.                  *)
THEOREM ScanJobsAccount == ScanSpec => [](Accounting /\ ResultsAligned)
<1>1. IInv => Accounting /\ ResultsAligned
  BY DEF IInv
<1> QED
  BY <1>1, ScansAlwaysSound, PTL

(* What the report of a scan job claims to be complete or assessed is.     *)
THEOREM ScanJobsReportTruly == ScanSpec => [](CompletedMeansAll /\ AssessedChecksRan)
<1>1. IInv => CompletedMeansAll /\ AssessedChecksRan
  BY DEF IInv
<1> QED
  BY <1>1, ScansAlwaysSound, PTL

-------------------------------------------------------------------------------
(* The report in the worker's hands. *)

Endings == {"completed", "completed_with_warnings", "failed"}

(* A scan is reported as cancelled only after its flag was set. *)
FlagBehindReport ==
    /\ pc = "finalize_cancelled" => cancelled
    /\ report.status = "cancelled" => cancelled
    /\ pc = "done" => report.status # "none"

(* execute is somewhere exactly while the worker is in the handler; its    *)
(* sink knows of every cancellation it has passed on, and a report is at   *)
(* hand from enrichment on.                                                *)
ExecutionInv ==
    /\ step = "off" <=> ~Running
    /\ Running /\ cancelled => noticed
    /\ step \in {"enrich", "last", "save", "saved"} => pc = "done"

(* A reference is to the last report saved, of a scan that has ended. *)
Reported(r) == r # None /\ r = Len(history) /\ history[r] \in Endings

(* From Saves to the worker's last write nothing comes between the report, *)
(* the reference in its hands and the row.                                 *)
OutcomeInv ==
    /\ history \in Seq(Endings \cup {"cancelled"})
    /\ step = "saved" => ref \in Nat /\ ref = Len(history) /\ history[ref] = report.status
    /\ worker[Worker].pc \in {"closing", "succeed", "succeed_write"} => Reported(ref)
    /\ row[Job].status = "succeeded" =>
           worker[Worker].pc \in {"idle"} \cup Queue!Stopped /\ Reported(resultRef)

LEMMA FlagKept ==
  ASSUME IInv, FlagBehindReport, Run, cancelled => cancelled'
  PROVE  FlagBehindReport'
  <1>0. TypeOK
    BY DEF IInv
  <1>1. CASE Finalize
    BY <1>1 DEF Finalize, Status, FlagBehindReport
  <1>2. CASE EndItems
    BY <1>2 DEF EndItems, FlagBehindReport
  <1>3. CASE \/ OpenSource \/ SourceUnavailable \/ ListingFails \/ StopsListing
             \/ \E warns \in BOOLEAN : ListPage(warns)
    <2>1. UNCHANGED report /\ pc' \in {"discover", "finalize", "items"}
      BY <1>3 DEF OpenSource, SourceUnavailable, ListingFails, StopsListing, ListPage
    <2> QED
      BY <2>1 DEF FlagBehindReport
  <1>4. CASE \/ \E i \in Items, stage \in ItemStages : PassesOver(i, stage)
             \/ \E i \in Items : RetrievalFails(i) \/ Retrieves(i)
    <2>1. UNCHANGED report /\ pc' \in {"items", "parse"}
      BY <1>4 DEF PassesOver, RetrievalFails, Retrieves
    <2> QED
      BY <2>1 DEF FlagBehindReport
  <1>5. CASE ParseFails \/ Parses \/ NormalizeFails \/ Normalizes \/ ChunkFails \/ Chunks
    <2>1. UNCHANGED report /\ pc' \in {"items", "normalize", "chunk"}
      BY <1>5 DEF ParseFails, Parses, NormalizeFails, Normalizes, ChunkFails, Chunks, Drops
    <2> QED
      BY <2>1 DEF FlagBehindReport
  <1>6. CASE \E s \in Scanners : Assesses(s) \/ ScannerFails(s) \/ NotApplied(s)
    <2>1. UNCHANGED report /\ pc' \in {"exact", "near", "quality", "score"}
      BY <1>6 DEF Assesses, ScannerFails, NotApplied, Following, Scanners
    <2> QED
      BY <2>1 DEF FlagBehindReport
  <1>7. CASE Scores
    BY <1>7 DEF Scores, FlagBehindReport
  <1> QED
    BY <1>0, <1>1, <1>2, <1>3, <1>4, <1>5, <1>6, <1>7, StepIsAction

LEMMA FlagStep == IInv /\ FlagBehindReport /\ [ScanNext]_scanVars => FlagBehindReport'
  <1> SUFFICES ASSUME IInv, FlagBehindReport, [ScanNext]_scanVars PROVE FlagBehindReport'
    OBVIOUS
  <1>1. CASE Run
    <2>1. CASE Scans
      <3>1. cancelled => cancelled'
        BY <2>1 DEF Scans
      <3> QED
        BY <1>1, <3>1, FlagKept
    <2>2. CASE ~Scans
      BY <2>2, ScanStepOfPipeline DEF FlagBehindReport, pipelineVars, FreshPipeline, NoReport
    <2> QED
      BY <2>1, <2>2
  <1>2. CASE UNCHANGED pipelineVars
    BY <1>2 DEF FlagBehindReport, pipelineVars
  <1>3. CASE FreshPipeline
    BY <1>3 DEF FlagBehindReport, FreshPipeline, NoReport
  <1> QED
    BY <1>1, <1>2, <1>3, ScanStepOfPipeline

(* Outside of the handler, run_once does not enter it. *)
LEMMA QueueStepsStayOut ==
  ASSUME Queue!TypeOK, QueueSteps \/ ClosingCancels \/ Finishes \/ Crashes
  PROVE  worker'[Worker].pc # "handler"
  <1>0. worker \in [{Worker} -> Queue!WorkerState]
    BY DEF Queue!TypeOK
  <1>1. ASSUME NEW r, r.pc # "handler", worker' = [worker EXCEPT ![Worker] = r]
        PROVE  worker'[Worker].pc # "handler"
    BY <1>0, <1>1
  <1>2. ASSUME NEW leaves, leaves # "handler", worker' = Queue!Counted(Worker, leaves)
        PROVE  worker'[Worker].pc # "handler"
    BY <1>0, <1>2 DEF Queue!Counted, Queue!WorkerState
  <1>3. CASE QueueSteps
    <2>1. ~Running
      BY <1>3 DEF QueueSteps
    <2>2. CASE Queue!ClaimJob(Worker, Job)
      <3>1. PICK p \in {"cancel", "begin"} : worker' = [worker EXCEPT ![Worker] = [Queue!Idle EXCEPT !.pc = p, !.job = Job]]
        BY <2>2 DEF Queue!ClaimJob
      <3>2. [Queue!Idle EXCEPT !.pc = p, !.job = Job].pc # "handler"
        BY DEF Queue!Idle
      <3> QED
        BY <1>1, <3>1, <3>2
    <2>3. CASE Queue!ClaimNothing(Worker)
      BY <2>1, <2>3 DEF Queue!ClaimNothing, Running
    <2>4. CASE worker[Worker].pc # "begin" /\ Queue!CheckpointRenews(Worker)
      <3>1. worker[Worker].pc = "closing"
        BY <2>1, <2>4 DEF Queue!CheckpointRenews, Queue!AtCheckpoint, Running
      <3>2. worker' = Queue!Counted(Worker, "succeed")
        BY <2>4, <3>1 DEF Queue!CheckpointRenews
      <3> QED
        BY <1>2, <3>2
    <2>5. CASE Queue!CheckpointLosesLease(Worker)
      BY <1>2, <2>1, <2>5 DEF Queue!CheckpointLosesLease, Running
    <2>6. CASE Queue!FinishReads(Worker)
      <3>1. PICK finish \in Queue!Finishing :
              worker' = [worker EXCEPT ![Worker] =
                   [worker[Worker] EXCEPT !.pc = Queue!WritePC[finish], !.at = now,
                                     !.seen = row[worker[Worker].job].attempt]]
        BY <2>6 DEF Queue!FinishReads
      <3>2. [worker[Worker] EXCEPT !.pc = Queue!WritePC[finish], !.at = now,
                                   !.seen = row[worker[Worker].job].attempt].pc # "handler"
        BY <1>0 DEF Queue!WorkerState, Queue!WritePC, Queue!Finishing
      <3> QED
        BY <1>1, <3>1, <3>2
    <2>7. CASE \/ Queue!FinishEscapes(Worker) \/ Queue!FailWrites(Worker) \/ Queue!FailEscapes(Worker)
               \/ Queue!Restart(Worker) \/ Queue!Revive(Worker)
      <3>1. worker' = [worker EXCEPT ![Worker] = Queue!Idle] \/
            worker' = [worker EXCEPT ![Worker] = [Queue!Idle EXCEPT !.pc = "dead"]]
        BY <2>7 DEF Queue!FinishEscapes, Queue!FailWrites, Queue!FailEscapes, Queue!Restart, Queue!Revive
      <3>2. Queue!Idle.pc # "handler" /\ [Queue!Idle EXCEPT !.pc = "dead"].pc # "handler"
        BY DEF Queue!Idle
      <3> QED
        BY <1>1, <3>1, <3>2
    <2> QED
      BY <1>3, <2>2, <2>3, <2>4, <2>5, <2>6, <2>7 DEF QueueSteps
  <1>4. CASE ClosingCancels
    BY <1>2, <1>4 DEF ClosingCancels, Queue!CheckpointCancels, Running
  <1>5. CASE Finishes \/ Crashes
    <2>1. worker' = [worker EXCEPT ![Worker] = Queue!Idle] \/
          worker' = [worker EXCEPT ![Worker] = [Queue!Idle EXCEPT !.pc = "crashed"]]
      BY <1>5 DEF Finishes, Queue!FinishWrites, Crashes, Queue!Crash
    <2>2. Queue!Idle.pc # "handler" /\ [Queue!Idle EXCEPT !.pc = "crashed"].pc # "handler"
      BY DEF Queue!Idle
    <2> QED
      BY <1>1, <2>1, <2>2
  <1> QED
    BY <1>3, <1>4, <1>5

(* A step of the handler that leaves it says where the worker goes. *)
LEMMA LeavesHandler ==
  ASSUME Queue!TypeOK, NEW leaves, ThisWorker(leaves)
  PROVE  worker'[Worker].pc = leaves
  BY DEF ThisWorker, Queue!TypeOK, Queue!WorkerState

LEMMA ExecutionStep ==
  ASSUME QueueInv, IInv, ExecutionInv, [ScanNext]_scanVars
  PROVE  ExecutionInv'
  <1>0. Queue!TypeOK
    BY DEF QueueInv
  <1>1. CASE Begins
    <2>1. worker' = Queue!Counted(Worker, "handler")
      BY <1>1 DEF Begins, Queue!CheckpointRenews
    <2>2. worker'[Worker].pc = "handler"
      BY <1>0, <2>1 DEF Queue!Counted, Queue!TypeOK, Queue!WorkerState
    <2> QED
      BY <1>1, <2>2 DEF Begins, FreshPipeline, ExecutionInv, Running
  <1>2. CASE Scans
    <2>1. Running' /\ step = "scan" /\ step' = "scan"
      BY <1>2 DEF Scans, Running
    <2>2. cancelled' => noticed'
      <3>1. cancelled => noticed
        BY <1>2 DEF Scans, ExecutionInv
      <3>2. \/ cancelled' = (cancelled \/ CancelAsked) /\ noticed' = (noticed \/ CancelAsked)
            \/ cancelled' = cancelled /\ noticed' = noticed
        BY <1>2 DEF Scans
      <3> QED
        BY <3>1, <3>2
    <2> QED
      BY <2>1, <2>2 DEF ExecutionInv
  <1>3. CASE BuildsReport \/ ChecksIn \/ Saves
    BY <1>3 DEF BuildsReport, ChecksIn, Saves, ExecutionInv, Running, pipelineVars, queueVars
  <1>4. CASE CheckInCancels \/ CheckInLosesLease \/ Returns \/ Fails
    <2>1. \E leaves \in {"cancel", "fail", "closing"} : ThisWorker(leaves)
      BY <1>4 DEF CheckInCancels, CheckInLosesLease, Returns, Fails
    <2>2. worker'[Worker].pc # "handler"
      BY <1>0, <2>1, LeavesHandler
    <2>3. step' = "off"
      BY <1>4 DEF CheckInCancels, CheckInLosesLease, Returns, Fails, Off
    <2> QED
      BY <2>2, <2>3 DEF ExecutionInv, Running
  <1>5. CASE QueueSteps \/ ClosingCancels \/ Finishes \/ Crashes
    <2>1. worker'[Worker].pc # "handler"
      BY <1>0, <1>5, QueueStepsStayOut
    <2>2. CASE Crashes
      BY <2>1, <2>2 DEF Crashes, Off, ExecutionInv, Running
    <2>3. CASE QueueSteps \/ ClosingCancels \/ Finishes
      <3>1. ~Running
        BY <2>3 DEF QueueSteps, ClosingCancels, Finishes, Queue!FinishWrites, Running
      <3>2. step' = step
        BY <2>3 DEF QueueSteps, ClosingCancels, Finishes, handlerVars
      <3> QED
        BY <2>1, <3>1, <3>2 DEF ExecutionInv, Running
    <2> QED
      BY <1>5, <2>2, <2>3
  <1>6. CASE Retries \/ Others \/ UNCHANGED scanVars
    <2>1. UNCHANGED <<pipelineVars, handlerVars, worker>>
      BY <1>6 DEF Retries, Others, Queue!RetryWrites, Queue!Enqueue, Queue!CancelReads, Queue!RetryReads,
                  Queue!Asks, Queue!CancelWrites, Queue!Tick, scanVars, queueVars
    <2> QED
      BY <2>1 DEF ExecutionInv, Running, pipelineVars, handlerVars
  <1> QED
    BY <1>1, <1>2, <1>3, <1>4, <1>5, <1>6 DEF ScanNext, Execute

-------------------------------------------------------------------------------
(* What can make a job succeed. *)

(* A claimed job is at work. *)
LEMMA ClaimRuns ==
  ASSUME QueueInv, Queue!ClaimJob(Worker, Job)
  PROVE  row'[Job].status \in {"cancel_requested", "running"}
  <1>0. row[Job] \in Queue!Row
    BY DEF QueueInv, Queue!TypeOK
  <1>1. row'[Job] = Queue!Granted(Job, Identity[Worker])
    BY DEF Queue!ClaimJob
  <1>2. Queue!Swept(Job) \in Queue!Row
    BY <1>0 DEF Queue!Swept, Queue!Completed, Queue!Unleased, Queue!Row, Queue!Statuses, Queue!Terminal
  <1> QED
    BY <1>1, <1>2 DEF Queue!Granted, Queue!Row

(* Only the worker's write of its success does. *)
LEMMA SuccessIsWritten ==
  ASSUME QueueInv, [ScanNext]_scanVars, row'[Job].status = "succeeded"
  PROVE  \/ row[Job].status = "succeeded"
         \/ Finishes /\ worker[Worker].pc = "succeed_write"
  <1>0. row \in [{Job} -> Queue!Row] /\ row[Job] \in Queue!Row /\ Queue!TypeOK
    BY DEF QueueInv, Queue!TypeOK
  <1>1. CASE Execute
    <2>1. row'[Job].status = row[Job].status
      BY <1>0, <1>1, ExecuteStep DEF HandlerStep, Queue!Renewed, Queue!Row
    <2> QED
      BY <1>1, <2>1
  <1>2. CASE Begins \/ ClosingCancels
    <2>1. row' = Queue!Renewed(worker[Worker].job)
      BY <1>2 DEF Begins, ClosingCancels, Queue!CheckpointRenews, Queue!CheckpointCancels
    <2>2. row'[Job].status = row[Job].status
      BY <1>0, <2>1 DEF Queue!Renewed, Queue!Row
    <2> QED
      BY <1>2, <2>2
  <1>3. CASE QueueSteps
    <2>1. CASE Queue!ClaimJob(Worker, Job)
      BY <2>1, ClaimRuns
    <2>2. CASE Queue!ClaimNothing(Worker)
      <3>1. row'[Job] = Queue!Swept(Job)
        BY <2>2 DEF Queue!ClaimNothing
      <3>2. Queue!Swept(Job).status = row[Job].status \/ Queue!Swept(Job).status \in {"cancelled", "failed"}
        BY <1>0 DEF Queue!Swept, Queue!Completed, Queue!Unleased, Queue!Row
      <3> QED
        BY <1>3, <3>1, <3>2
    <2>3. CASE worker[Worker].pc # "begin" /\ Queue!CheckpointRenews(Worker)
      <3>1. row' = Queue!Renewed(worker[Worker].job)
        BY <2>3 DEF Queue!CheckpointRenews
      <3>2. row'[Job].status = row[Job].status
        BY <1>0, <3>1 DEF Queue!Renewed, Queue!Row
      <3> QED
        BY <1>3, <3>2
    <2>4. CASE Queue!FailWrites(Worker)
      <3>1. worker[Worker].job = Job
        BY <1>0, <2>4 DEF Queue!FailWrites, Queue!TypeOK, Queue!Stopped
      <3>2. row'[Job] = Queue!Failed(Job, worker[Worker].seen, worker[Worker].at)
        BY <1>0, <2>4, <3>1 DEF Queue!FailWrites
      <3>3. row'[Job].status \in {"failed", "queued"}
        BY <1>0, <3>2 DEF Queue!Failed, Queue!Unleased, Queue!Row
      <3> QED
        BY <3>3
    <2>5. CASE \/ Queue!CheckpointLosesLease(Worker) \/ Queue!FinishReads(Worker)
               \/ Queue!FinishEscapes(Worker) \/ Queue!FailEscapes(Worker)
               \/ Queue!Restart(Worker) \/ Queue!Revive(Worker)
      BY <2>5 DEF Queue!CheckpointLosesLease, Queue!FinishReads, Queue!FinishEscapes,
                  Queue!FailEscapes, Queue!Restart, Queue!Revive
    <2> QED
      BY <1>3, <2>1, <2>2, <2>3, <2>4, <2>5 DEF QueueSteps
  <1>4. CASE Finishes
    <2>1. worker[Worker].job = Job
      BY <1>0, <1>4 DEF Finishes, Queue!FinishWrites, Queue!TypeOK, Queue!Stopped
    <2>2. CASE worker[Worker].pc = "cancel_write"
      <3>1. row'[Job] = Queue!Completed(row[Job], "cancelled")
        BY <1>0, <1>4, <2>1, <2>2 DEF Finishes, Queue!FinishWrites
      <3>2. row'[Job].status = "cancelled"
        BY <1>0, <3>1 DEF Queue!Completed, Queue!Unleased, Queue!Row
      <3> QED
        BY <3>2
    <2> QED
      BY <1>4, <2>2 DEF Finishes, Queue!FinishWrites
  <1>5. CASE Crashes \/ UNCHANGED scanVars
    BY <1>5 DEF Crashes, Queue!Crash, scanVars, queueVars
  <1>6. CASE Retries
    <2>1. PICK c \in Clients : client[c].op = "retry" /\ row' = [row EXCEPT ![client[c].job] = Queue!Requeued(row[client[c].job], client[c].at)]
      BY <1>6 DEF Retries, Queue!RetryWrites
    <2>2. client[c].job = Job
      BY <1>0, <2>1 DEF Queue!TypeOK
    <2>3. row'[Job].status = "queued"
      BY <1>0, <2>1, <2>2 DEF Queue!Requeued, Queue!Unleased, Queue!Row
    <2> QED
      BY <2>3
  <1>7. CASE Others
    <2>1. CASE Queue!Enqueue(Job)
      <3>1. row'[Job].status = "queued"
        BY <1>0, <2>1 DEF Queue!Enqueue, Queue!NoRow
      <3> QED
        BY <3>1
    <2>2. CASE \E c \in Clients : Queue!CancelWrites(c)
      <3>1. PICK c \in Clients : client[c].op = "cancel" /\ row' = [row EXCEPT ![client[c].job] = Queue!CancelledAs(row[client[c].job], client[c].seen)]
        BY <2>2 DEF Queue!CancelWrites
      <3>2. client[c].job = Job
        BY <1>0, <3>1 DEF Queue!TypeOK
      <3>3. row'[Job].status \in {"cancelled", "cancel_requested"}
        BY <1>0, <3>1, <3>2 DEF Queue!CancelledAs, Queue!Row
      <3> QED
        BY <3>3
    <2>3. CASE (\E c \in Clients : Queue!CancelReads(c, Job) \/ Queue!RetryReads(c, Job)) \/ Queue!Tick
      BY <2>3 DEF Queue!CancelReads, Queue!RetryReads, Queue!Asks, Queue!Tick
    <2> QED
      BY <1>7, <2>1, <2>2, <2>3 DEF Others
  <1> QED
    BY <1>1, <1>2, <1>3, <1>4, <1>5, <1>6, <1>7 DEF ScanNext

(* Where the steps of the queue around the handler take the worker. *)
LEMMA QueueStepsAdvance ==
  ASSUME Queue!TypeOK, QueueSteps
  PROVE  /\ worker[Worker].pc \in {"idle"} \cup Queue!Stopped =>
                Queue!ClaimJob(Worker, Job) \/ worker'[Worker].pc \in {"idle"} \cup Queue!Stopped
         /\ worker'[Worker].pc \in {"closing", "succeed", "succeed_write"} =>
                worker[Worker].pc \in {"closing", "succeed", "succeed_write"}
  <1>0. worker \in [{Worker} -> Queue!WorkerState] /\ ~Running
    BY DEF Queue!TypeOK, QueueSteps
  <1>1. ASSUME NEW p, NEW r, r.pc = p, worker' = [worker EXCEPT ![Worker] = r]
        PROVE  worker'[Worker].pc = p
    BY <1>0, <1>1
  <1>2. ASSUME NEW leaves, worker' = Queue!Counted(Worker, leaves)
        PROVE  worker'[Worker].pc = leaves
    BY <1>0, <1>2 DEF Queue!Counted, Queue!WorkerState
  <1>3. CASE Queue!ClaimJob(Worker, Job)
    <2>1. PICK p \in {"cancel", "begin"} :
              worker' = [worker EXCEPT ![Worker] = [Queue!Idle EXCEPT !.pc = p, !.job = Job]]
      BY <1>3 DEF Queue!ClaimJob
    <2>2. [Queue!Idle EXCEPT !.pc = p, !.job = Job].pc = p
      BY DEF Queue!Idle
    <2>3. worker'[Worker].pc = p
      BY <1>1, <2>1, <2>2
    <2> QED
      BY <1>3, <2>3
  <1>4. CASE Queue!ClaimNothing(Worker)
    BY <1>4 DEF Queue!ClaimNothing
  <1>5. CASE worker[Worker].pc # "begin" /\ Queue!CheckpointRenews(Worker)
    BY <1>0, <1>5 DEF Queue!CheckpointRenews, Queue!AtCheckpoint, Running, Queue!Stopped
  <1>6. CASE Queue!CheckpointLosesLease(Worker)
    <2>1. worker'[Worker].pc = "fail" /\ worker[Worker].pc \notin {"idle"} \cup Queue!Stopped
      BY <1>0, <1>2, <1>6 DEF Queue!CheckpointLosesLease, Queue!AtCheckpoint, Running, Queue!Stopped
    <2> QED
      BY <2>1
  <1>7. CASE Queue!FinishReads(Worker)
    <2>1. PICK finish \in Queue!Finishing :
              /\ worker[Worker].pc = finish
              /\ worker' = [worker EXCEPT ![Worker] =
                   [worker[Worker] EXCEPT !.pc = Queue!WritePC[finish], !.at = now,
                                     !.seen = row[worker[Worker].job].attempt]]
      BY <1>7 DEF Queue!FinishReads
    <2>2. [worker[Worker] EXCEPT !.pc = Queue!WritePC[finish], !.at = now,
                                 !.seen = row[worker[Worker].job].attempt].pc = Queue!WritePC[finish]
      BY <1>0 DEF Queue!WorkerState
    <2>3. worker'[Worker].pc = Queue!WritePC[finish]
      BY <1>1, <2>1, <2>2
    <2> QED
      BY <2>1, <2>3 DEF Queue!Finishing, Queue!WritePC, Queue!Stopped
  <1>8. CASE \/ Queue!FinishEscapes(Worker) \/ Queue!FailWrites(Worker) \/ Queue!FailEscapes(Worker)
             \/ Queue!Restart(Worker) \/ Queue!Revive(Worker)
    <2>1. worker' = [worker EXCEPT ![Worker] = Queue!Idle] \/
          worker' = [worker EXCEPT ![Worker] = [Queue!Idle EXCEPT !.pc = "dead"]]
      BY <1>8 DEF Queue!FinishEscapes, Queue!FailWrites, Queue!FailEscapes, Queue!Restart, Queue!Revive
    <2>2. Queue!Idle.pc = "idle" /\ [Queue!Idle EXCEPT !.pc = "dead"].pc = "dead"
      BY DEF Queue!Idle
    <2>3. worker'[Worker].pc \in {"idle", "dead"}
      BY <1>1, <2>1, <2>2
    <2> QED
      BY <2>3 DEF Queue!Stopped
  <1> QED
    BY <1>3, <1>4, <1>5, <1>6, <1>7, <1>8 DEF QueueSteps

(* The worker at the end of run_once, and between two jobs. *)
LEMMA WorkerLeaves ==
  ASSUME Queue!TypeOK, ClosingCancels \/ Finishes \/ Crashes
  PROVE  worker'[Worker].pc \in {"cancel", "idle", "crashed"}
  <1>0. worker \in [{Worker} -> Queue!WorkerState]
    BY DEF Queue!TypeOK
  <1>1. CASE ClosingCancels
    <2>1. worker' = Queue!Counted(Worker, "cancel")
      BY <1>1 DEF ClosingCancels, Queue!CheckpointCancels, Running
    <2> QED
      BY <1>0, <2>1 DEF Queue!Counted, Queue!WorkerState
  <1>2. CASE Finishes \/ Crashes
    <2>1. worker' = [worker EXCEPT ![Worker] = Queue!Idle] \/
          worker' = [worker EXCEPT ![Worker] = [Queue!Idle EXCEPT !.pc = "crashed"]]
      BY <1>2 DEF Finishes, Queue!FinishWrites, Crashes, Queue!Crash
    <2>2. Queue!Idle.pc = "idle" /\ [Queue!Idle EXCEPT !.pc = "crashed"].pc = "crashed"
      BY DEF Queue!Idle
    <2> QED
      BY <1>0, <2>1, <2>2
  <1> QED
    BY <1>1, <1>2

(* A report at hand is one that can be saved. *)
LEMMA ReportAtHand ==
  ASSUME IInv, FlagBehindReport, pc = "done"
  PROVE  /\ report.status \in Endings \cup {"cancelled"}
         /\ ~cancelled => report.status \in Endings
  BY DEF IInv, TypeOK, FlagBehindReport, Endings

LEMMA OutcomeStep ==
  ASSUME QueueInv, IInv, FlagBehindReport, ExecutionInv, OutcomeInv, [ScanNext]_scanVars
  PROVE  OutcomeInv'
  <1>0. /\ Queue!TypeOK /\ history \in Seq(Endings \cup {"cancelled"}) /\ Len(history) \in Nat
        /\ None \notin Nat
    BY NoneAssumption DEF QueueInv, OutcomeInv
  <1>1. CASE Saves
    <2>1. report.status \in Endings \cup {"cancelled"}
      BY <1>1, ReportAtHand DEF Saves, ExecutionInv
    <2>2. /\ history' \in Seq(Endings \cup {"cancelled"})
          /\ Len(history') = Len(history) + 1
          /\ history'[Len(history) + 1] = report.status
      BY <1>0, <1>1, <2>1 DEF Saves
    <2>3. /\ ref' = Len(history') /\ ref' \in Nat /\ report' = report /\ history'[ref'] = report.status
      BY <1>0, <1>1, <2>2 DEF Saves, pipelineVars
    <2>4. worker'[Worker].pc = "handler" /\ worker[Worker].pc = "handler" /\ row' = row
      BY <1>1 DEF Saves, Running, queueVars
    <2>5. row[Job].status # "succeeded"
      BY <2>4 DEF OutcomeInv, Queue!Stopped
    <2> QED
      BY <2>2, <2>3, <2>4, <2>5 DEF OutcomeInv
  <1>2. CASE ~Saves
    <2>1. UNCHANGED history
      BY <1>2 DEF ScanNext, Execute, Begins, Scans, BuildsReport, ChecksIn, CheckInCancels,
                  CheckInLosesLease, Returns, Fails, QueueSteps, ClosingCancels, Finishes, Crashes,
                  Retries, Others, scanVars
    <2>2. step' = "saved" => ref' \in Nat /\ ref' = Len(history) /\ history[ref'] = report'.status
      <3>1. CASE \/ Begins \/ Scans \/ BuildsReport \/ ChecksIn \/ CheckInCancels
                 \/ CheckInLosesLease \/ Returns \/ Fails \/ Crashes
        BY <3>1 DEF Begins, Scans, BuildsReport, ChecksIn, CheckInCancels, CheckInLosesLease,
                    Returns, Fails, Crashes, Off
      <3>2. CASE ClosingCancels
        BY <3>2 DEF ClosingCancels, ExecutionInv
      <3>3. CASE QueueSteps \/ Finishes \/ Retries \/ Others \/ UNCHANGED scanVars
        <4>1. UNCHANGED <<step, ref, report>>
          BY <3>3 DEF QueueSteps, Finishes, Retries, Others, scanVars, handlerVars, pipelineVars
        <4> QED
          BY <4>1 DEF OutcomeInv
      <3> QED
        BY <1>2, <3>1, <3>2, <3>3 DEF ScanNext, Execute
    <2>3. worker'[Worker].pc \in {"closing", "succeed", "succeed_write"} =>
              /\ ref' # None /\ ref' = Len(history) /\ history[ref'] \in Endings
      <3>1. CASE Begins \/ Scans \/ BuildsReport \/ ChecksIn
        <4>1. worker'[Worker].pc = "handler"
          <5>1. CASE Begins
            <6>1. worker' = Queue!Counted(Worker, "handler")
              BY <5>1 DEF Begins, Queue!CheckpointRenews
            <6> QED
              BY <1>0, <6>1 DEF Queue!Counted, Queue!TypeOK, Queue!WorkerState
          <5> QED
            BY <3>1, <5>1 DEF Scans, BuildsReport, ChecksIn, Running, queueVars
        <4> QED
          BY <4>1
      <3>2. CASE CheckInCancels \/ CheckInLosesLease \/ Fails
        <4>1. \E leaves \in {"cancel", "fail"} : ThisWorker(leaves)
          BY <3>2 DEF CheckInCancels, CheckInLosesLease, Fails
        <4> QED
          BY <1>0, <4>1, LeavesHandler
      <3>3. CASE Returns
        <4>1. Running /\ step = "saved" /\ pc = "done" /\ ref' = ref
          BY <3>3 DEF Returns, ExecutionInv
        <4>2. CASE noticed
          BY <1>0, <3>3, <4>2, LeavesHandler DEF Returns
        <4>3. CASE ~noticed
          <5>1. ~cancelled
            BY <4>1, <4>3 DEF ExecutionInv
          <5>2. report.status \in Endings
            BY <4>1, <5>1, ReportAtHand
          <5> QED
            BY <1>0, <4>1, <5>2 DEF OutcomeInv
        <4> QED
          BY <4>2, <4>3
      <3>4. CASE QueueSteps
        <4>1. ref' = ref
          BY <3>4 DEF QueueSteps, handlerVars
        <4> QED
          BY <1>0, <3>4, <4>1, QueueStepsAdvance DEF OutcomeInv, Reported
      <3>5. CASE ClosingCancels \/ Finishes \/ Crashes
        BY <1>0, <3>5, WorkerLeaves
      <3>6. CASE Retries \/ Others \/ UNCHANGED scanVars
        <4>1. UNCHANGED <<worker, ref>>
          BY <3>6 DEF Retries, Others, Queue!RetryWrites, Queue!Enqueue, Queue!CancelReads, Queue!RetryReads,
                      Queue!Asks, Queue!CancelWrites, Queue!Tick, scanVars, queueVars, handlerVars
        <4> QED
          BY <4>1 DEF OutcomeInv, Reported
      <3> QED
        BY <1>2, <3>1, <3>2, <3>3, <3>4, <3>5, <3>6 DEF ScanNext, Execute
    <2>4. ASSUME row'[Job].status = "succeeded"
          PROVE  /\ worker'[Worker].pc \in {"idle"} \cup Queue!Stopped
                 /\ resultRef' # None /\ resultRef' = Len(history) /\ history[resultRef'] \in Endings
      <3>1. CASE row[Job].status = "succeeded"
        <4>1. worker[Worker].pc \in {"idle", "crashed", "dead"} /\ Reported(resultRef)
          BY <3>1 DEF OutcomeInv, Queue!Stopped
        <4>2. ~Begins /\ ~Execute /\ ~ClosingCancels /\ ~Finishes /\ ~Crashes
          BY <4>1, ExecuteStep DEF Begins, HandlerStep, Running, ClosingCancels, Queue!CheckpointCancels,
                      Queue!AtCheckpoint, Finishes, Queue!FinishWrites, Crashes, Queue!Crash, Queue!Stopped
        <4>3. ~Retries
          <5>1. ASSUME Retries PROVE FALSE
            <6>1. PICK c \in Clients :
                      /\ client[c].op = "retry"
                      /\ row' = [row EXCEPT ![client[c].job] =
                                     Queue!Requeued(row[client[c].job], client[c].at)]
              BY <5>1 DEF Retries, Queue!RetryWrites
            <6>2. client[c].job = Job /\ row \in [{Job} -> Queue!Row]
              BY <1>0, <6>1 DEF Queue!TypeOK
            <6>3. row'[Job].status = "queued"
              BY <6>1, <6>2 DEF Queue!Requeued, Queue!Unleased, Queue!Row
            <6> QED
              BY <2>4, <6>3
          <5> QED
            BY <5>1
        <4>4. CASE QueueSteps
          <5>1. ~Queue!ClaimJob(Worker, Job)
            BY <2>4, ClaimRuns
          <5>2. worker'[Worker].pc \in {"idle"} \cup Queue!Stopped
            BY <1>0, <4>1, <4>4, <5>1, QueueStepsAdvance DEF Queue!Stopped
          <5>3. resultRef' = resultRef
            BY <4>4 DEF QueueSteps
          <5> QED
            BY <4>1, <5>2, <5>3 DEF Reported
        <4>5. CASE Others \/ UNCHANGED scanVars
          <5>1. UNCHANGED <<worker, resultRef>>
            BY <4>5 DEF Others, Queue!Enqueue, Queue!CancelReads, Queue!RetryReads,
                        Queue!Asks, Queue!CancelWrites, Queue!Tick, scanVars, queueVars
          <5> QED
            BY <4>1, <5>1 DEF Reported, Queue!Stopped
        <4> QED
          BY <4>2, <4>3, <4>4, <4>5 DEF ScanNext
      <3>2. CASE Finishes /\ worker[Worker].pc = "succeed_write"
        <4>1. Reported(ref) /\ resultRef' = ref
          BY <3>2 DEF OutcomeInv, Finishes
        <4>2. worker'[Worker].pc = "idle"
          BY <1>0, <3>2 DEF Finishes, Queue!FinishWrites, Queue!Idle, Queue!TypeOK
        <4> QED
          BY <4>1, <4>2 DEF Reported
      <3> QED
        BY <2>4, <3>1, <3>2, SuccessIsWritten
    <2> QED
      BY <1>0, <2>1, <2>2, <2>3, <2>4 DEF OutcomeInv, Reported
  <1> QED
    BY <1>1, <1>2

(* A job that succeeded refers to the report of its own attempt, and the   *)
(* scan of that report has run to its end: whatever requests, crashes,     *)
(* expired leases and stale writes came in between.                        *)
THEOREM SuccessRefersToReport == ScanSpec => []SucceededJobsReport
<1>1. ScanInit => FlagBehindReport /\ ExecutionInv /\ OutcomeInv
  BY DEF ScanInit, Init, Queue!Init, Queue!Idle, Queue!NoRow, NoReport, FlagBehindReport,
         ExecutionInv, OutcomeInv, Running
<1>2. QueueInv /\ IInv /\ FlagBehindReport /\ ExecutionInv /\ OutcomeInv /\ [ScanNext]_scanVars
          => FlagBehindReport' /\ ExecutionInv' /\ OutcomeInv'
  BY FlagStep, ExecutionStep, OutcomeStep
<1>3. OutcomeInv => SucceededJobsReport
  BY DEF OutcomeInv, Reported, Endings, SucceededJobsReport
<1> QED
  BY <1>1, <1>2, <1>3, QueueAlwaysConsistent, ScansAlwaysSound, PTL DEF ScanSpec

===============================================================================
