-------------------------------- MODULE Quality --------------------------------
(***************************************************************************)
(* quality/scanners.py: the three quality scanners.  ExactDuplicateScanner *)
(* groups items of equal text, NearDuplicateScanner groups items whose     *)
(* shingles are similar, ChunkQualityScanner judges every chunk by itself. *)
(* Each works through lists that are cut at limits and may run out of its  *)
(* time between any two elements.                                          *)
(*                                                                         *)
(* A text is a sequence of non-empty lines, a line a sequence of words and *)
(* a word one character; separators are one character each.  Two words     *)
(* never differ in their case only, so casefold leaves them alone.         *)
(***************************************************************************)
EXTENDS Cuts, FiniteSetsExt

CONSTANTS
    Collections,     \* [docs, chunks]: sets of records, see Item, Issues
    QualityConfigs,  \* [scanner, docs, chunks, groups, findings, characters, tokens, compare,
                     \*  shingle, shingles, bucket, candidates, threshold, most, fewest, outlier,
                     \*  near, sample, dominance, repeated, density, overlap, excessive]
    Words,           \* [lower, digits, punctuation, keys, markers, replacements,
                     \*  unprintable: sets of words, code: word -> number]
    HashKeys         \* 64 in the code: bucket keys of one item

VARIABLES
    collection, thresholds,
    qstep,           \* where scan is
    things,          \* the items or chunks considered, in order
    ahead,           \* buckets, pairs or positions still to go through
    links,           \* pairs found similar: [left, right, score]
    closed,          \* items whose group has been looked for
    groups,          \* DuplicateGroup: [category, members, similarity]
    grades,          \* chunk -> ChunkQualityScore
    judged,          \* findings: [item, issue]
    passed,          \* ids skipped
    cautioned        \* codes of the warnings

qualityVars == <<collection, thresholds, qstep, things, ahead, links, closed, groups, grades,
                 judged, passed, cautioned>>

Nothing == [nothing |-> TRUE]

When(condition, x) == IF condition THEN <<x>> ELSE <<>>
Ids(sequence) == {sequence[i].id : i \in DOMAIN sequence}
InOrder(S) == Ordered(S, LAMBDA x : x.id)
Named(id) == CHOOSE x \in ToSet(things) : x.id = id
-------------------------------------------------------------------------------
(* Text. *)

Flat(text) == FlattenSeq(text)
Characters(text) ==
    FoldLeft(LAMBDA n, line : n + 2 * Len(line), 0, text) - (IF text = <<>> THEN 0 ELSE 1)
Tokens(text) == Len(Flat(text))
PageNumber(line) == Len(line) = 1 /\ line[1] \in Words.digits
Alphanumeric(word) == word \notin Words.punctuation
Vocabulary(text) == SelectSeq(Flat(text), Alphanumeric)
Digest(words) == FoldLeft(LAMBDA n, w : (31 * n + Words.code[w]) % 9973, 7, words)

HeadingOnly(chunk) == chunk.generated /\ Flat(chunk.text) \in chunk.headings

NonContent(text) ==
    \/ \A i \in DOMAIN Flat(text) : ~Alphanumeric(Flat(text)[i])
    \/ Cardinality({i \in DOMAIN text : text[i][1] \in Words.keys}) >= 3

Item(type, x, document) ==
    [type |-> type, id |-> x.id, document |-> document.id, path |-> x.path, text |-> x.text]

(* _items: a document needs a normalization result; a chunk its document,  *)
(* a text of its own and some length.                                      *)
ItemsOf(docs, chunks) ==
    LET usable == SelectSeq(docs, LAMBDA d : d.normalized)
        Owner(c) == {d \in ToSet(docs) : d.id = c.document}
        Counts(c) ==
            /\ Owner(c) # {}
            /\ ~HeadingOnly(c)
            /\ \A d \in Owner(c) : d.normalized => c.text # d.text
            /\ ~NonContent(c.text)
            /\ Characters(c.text) >= thresholds.characters
            /\ Tokens(c.text) >= thresholds.tokens
    IN  [items |-> [i \in DOMAIN usable |-> Item("document", usable[i], usable[i])]
                   \o LET kept == SelectSeq(chunks, Counts)
                      IN  [i \in DOMAIN kept |->
                              Item("chunk", kept[i], CHOOSE d \in Owner(kept[i]) : TRUE)],
         skipped |-> Ids(SelectSeq(docs, LAMBDA d : ~d.normalized))
                     \cup Ids(SelectSeq(chunks, LAMBDA c : Owner(c) = {}))]

CanonicalKey(item) == 1000 * item.path + item.id
Canonically(S) == Ordered(S, CanonicalKey)
-------------------------------------------------------------------------------
(* ExactDuplicateScanner *)

Category(members) ==
    IF members[1].type = "document" THEN "exact_duplicate_document"
    ELSE IF Cardinality({members[i].document : i \in DOMAIN members}) = 1
         THEN "repeated_chunk_within_document" ELSE "exact_duplicate_chunk"

(* Buckets of two members or more: those of chunks first, then by hash. *)
Buckets(items) ==
    LET Same(i) == {x \in ToSet(items) : x.type = i.type /\ x.text = i.text}
        buckets == {Same(i) : i \in {x \in ToSet(items) : x.text # <<>>}}
        Place(bucket) == LET i == CHOOSE x \in bucket : TRUE
                         IN  (IF i.type = "chunk" THEN 0 ELSE 10000) + Digest(Flat(i.text))
    IN  Ordered({b \in buckets : Cardinality(b) > 1}, Place)

CollectsItems ==
    /\ qstep = "start" /\ thresholds.scanner = "exact"
    /\ LET docs == InOrder(collection.docs)
           chunks == InOrder(collection.chunks)
           found == ItemsOf(Take(docs, thresholds.docs), Take(chunks, thresholds.chunks))
       IN  /\ things' = found.items
           /\ ahead' = Buckets(found.items)
           /\ passed' = found.skipped \cup Ids(Drop(docs, thresholds.docs))
                                      \cup Ids(Drop(chunks, thresholds.chunks))
           /\ cautioned' = (IF Len(docs) > thresholds.docs THEN {"maximum_documents"} ELSE {})
                     \cup (IF Len(chunks) > thresholds.chunks THEN {"maximum_chunks"} ELSE {})
    /\ qstep' = "group"
    /\ UNCHANGED <<collection, thresholds, links, closed, groups, grades, judged>>

GroupsDuplicates ==
    /\ qstep = "group" /\ ahead # <<>>
    /\ \E late \in BOOLEAN :
          LET members == Canonically(Head(ahead))
              full == Len(groups) + 1 >= thresholds.groups
          IN  /\ groups' = Append(groups, [category |-> Category(members),
                                           members |-> [i \in DOMAIN members |-> members[i].id],
                                           similarity |-> 10000])
              /\ cautioned' = cautioned \cup (IF full THEN {"maximum_groups"}
                                              ELSE IF late THEN {"time"} ELSE {})
              /\ ahead' = IF full \/ late THEN <<>> ELSE Tail(ahead)
    /\ UNCHANGED <<collection, thresholds, qstep, things, links, closed, grades, judged, passed>>

(* Mutant of GroupFindings: the limit is forgotten. *)
GroupFindings_All == [i \in DOMAIN groups |->
                         [item |-> groups[i].members[1], issue |-> groups[i].category]]

(* A finding for each group, about its canonical member. *)
GroupFindings == [i \in DOMAIN Take(groups, thresholds.findings) |->
                     [item |-> groups[i].members[1], issue |-> groups[i].category]]

ReportsDuplicates ==
    /\ qstep = "group" /\ ahead = <<>>
    /\ judged' = GroupFindings
    /\ cautioned' = cautioned \cup
          (IF Len(groups) > thresholds.findings THEN {"maximum_findings"} ELSE {})
    /\ qstep' = "done"
    /\ UNCHANGED <<collection, thresholds, things, ahead, links, closed, groups, grades, passed>>
-------------------------------------------------------------------------------
(* NearDuplicateScanner *)

(* Lines marked as boilerplate in any document. *)
Boilerplate == UNION {d.boilerplate : d \in {x \in collection.docs : x.normalized}}

WithoutBoilerplate(text) ==
    SelectSeq(text, LAMBDA line : line \notin Boilerplate /\ ~PageNumber(line))

Shingles(text) ==
    LET words == Vocabulary(text)
    IN  {SubSeq(words, i, i + thresholds.shingle - 1) :
            i \in 1..Least(Len(words) - thresholds.shingle + 1, thresholds.shingles)}

Signature(item) == Shingles(WithoutBoilerplate(item.text))
BucketKeys(item) == Take(InTurn({Digest(s) : s \in Signature(item)}), HashKeys)

(* Pairs that meet in some bucket, in the order they are found. *)
CandidatePairs(items) ==
    LET keys == Distinct(FlattenSeq([i \in DOMAIN items |-> BucketKeys(items[i])]))
        Bucket(key) == InOrder(ToSet(Take(
            SelectSeq(items, LAMBDA x : key \in ToSet(BucketKeys(x))), thresholds.bucket)))
        Pairs(b) == FlattenSeq([i \in DOMAIN b |-> FlattenSeq([j \in 1..(Len(b) - i) |->
                        When(b[i].type = b[i + j].type, <<b[i].id, b[i + j].id>>)])])
    IN  Distinct(FlattenSeq([i \in DOMAIN keys |-> Pairs(Bucket(keys[i]))]))

(* The documents and chunks past their limits are left out here without    *)
(* being listed as skipped.                                                *)
CollectsNear ==
    /\ qstep = "start" /\ thresholds.scanner = "near"
    /\ LET found == ItemsOf(Take(InOrder(collection.docs), thresholds.docs),
                          Take(InOrder(collection.chunks), thresholds.chunks))
           Comparable(x) == Characters(x.text) >= thresholds.compare /\ Signature(x) # {}
           items == SelectSeq(found.items, Comparable)
           pairs == CandidatePairs(items)
       IN  /\ things' = items
           /\ ahead' = Ordered(ToSet(Take(pairs, thresholds.candidates)),
                               LAMBDA p : 1000 * p[1] + p[2])
           /\ passed' = found.skipped \cup (Ids(found.items) \ Ids(items))
           /\ cautioned' = IF Len(pairs) >= thresholds.candidates
                           THEN {"maximum_candidates"} ELSE {}
    /\ qstep' = "compare"
    /\ UNCHANGED <<collection, thresholds, links, closed, groups, grades, judged>>

(* _similarity, in ten-thousandths *)
Similarity(left, right) ==
    LET common == Cardinality(left \cap right)
        Spoken(shingles) == UNION {ToSet(s) : s \in shingles}
        widest == Most(Cardinality(left), Cardinality(right))
    IN  Most(Most((10000 * common) \div Cardinality(left \cup right), (10000 * common) \div widest),
             (9000 * Cardinality(Spoken(left) \cap Spoken(right)))
                \div Most(1, Cardinality(Spoken(left) \cup Spoken(right))))

Compares ==
    /\ qstep = "compare" /\ ahead # <<>>
    /\ \/ LET pair == Head(ahead)
              score == Similarity(Signature(Named(pair[1])), Signature(Named(pair[2])))
          IN  /\ links' = IF score >= thresholds.threshold /\ score < 10000
                          THEN links \cup {[left |-> pair[1], right |-> pair[2], score |-> score]}
                          ELSE links
              /\ ahead' = Tail(ahead)
              /\ UNCHANGED cautioned
       \/ /\ cautioned' = cautioned \cup {"time"}
          /\ ahead' = <<>>
          /\ UNCHANGED links
    /\ UNCHANGED <<collection, thresholds, qstep, things, closed, groups, grades, judged, passed>>

Linked == {l.left : l \in links} \cup {l.right : l \in links}
Neighbours(S) == S \cup {l.left : l \in {x \in links : x.right \in S}}
                   \cup {l.right : l \in {x \in links : x.left \in S}}
(* Mutant: a component is looked for one link deep only. *)
Component_OneStep(id) == Neighbours({id})

Component(id) == FoldLeft(LAMBDA S, n : Neighbours(S), {id}, [n \in 1..Cardinality(Linked) |-> n])

(* Sources with two members of a component. *)
RepeatedSources(members) ==
    {x.path : x \in {y \in members : \E z \in members : z # y /\ z.path = y.path}}

(* _separate_document_repetitions: chunks of one source are kept apart from those of several. *)
Separated(members) ==
    IF \A x \in members : x.type = "document"
    THEN <<[category |-> "near_duplicate_document", members |-> members]>>
    ELSE LET repeated == RepeatedSources(members)
             sources == InTurn(repeated)
             across == {x \in members : x.path \notin repeated}
         IN  [i \in DOMAIN sources |-> [category |-> "within_document_near_duplicates",
                                        members |-> {x \in members : x.path = sources[i]}]]
             \o When(Cardinality(across) >= 2,
                     [category |-> "near_duplicate_chunk", members |-> across])

Scores(members) == {l.score : l \in {x \in links : {x.left, x.right} \subseteq {m.id : m \in members}}}

NearGroup(part) ==
    LET members == Canonically(part.members)
    IN  [category |-> part.category, members |-> [i \in DOMAIN members |-> members[i].id],
         similarity |-> Min(Scores(part.members))]

GroupsNear ==
    /\ qstep = "compare" /\ ahead = <<>> /\ Linked \ closed # {}
    /\ Len(groups) < thresholds.groups
    /\ LET component == Component(Min(Linked \ closed))
           parts == SelectSeq(Separated({Named(id) : id \in component}),
                              LAMBDA p : Scores(p.members) # {})
           found == groups \o [i \in DOMAIN parts |-> NearGroup(parts[i])]
       IN  /\ groups' = found
           /\ closed' = closed \cup component
           /\ cautioned' = cautioned \cup
                 (IF Len(found) >= thresholds.groups THEN {"maximum_groups"} ELSE {})
    /\ UNCHANGED <<collection, thresholds, qstep, things, ahead, links, grades, judged, passed>>

ReportsNear ==
    /\ qstep = "compare" /\ ahead = <<>>
    /\ Linked \ closed = {} \/ Len(groups) >= thresholds.groups
    /\ judged' = GroupFindings
    /\ qstep' = "done"
    /\ UNCHANGED <<collection, thresholds, things, ahead, links, closed, groups, grades, passed, cautioned>>
-------------------------------------------------------------------------------
(* ChunkQualityScanner *)

Siblings(chunk) == SelectSeq(things, LAMBDA c : c.document = chunk.document)
Position(chunk) == CHOOSE i \in DOMAIN Siblings(chunk) : Siblings(chunk)[i] = chunk

(* Twice the median of the token counts of a document's chunks. *)
TwiceMedian(chunk) ==
    LET all == Siblings(chunk)
        sorted == Ordered({<<Tokens(all[i].text), i>> : i \in DOMAIN all},
                          LAMBDA t : 1000 * t[1] + t[2])
        n == Len(all)
    IN  sorted[(n + 1) \div 2][1] + sorted[n \div 2 + 1][1]

(* How many chunks that were cut in the same way come directly before. *)
ForcedRun(chunk) ==
    LET all == Siblings(chunk)
        here == Position(chunk)
        OneRun(from) == \A i \in from..here : all[i].forced /\ all[i].kinds = chunk.kinds
    IN  IF OneRun(here) THEN here - Min({from \in 1..here : OneRun(from)}) ELSE 0

Issue(id, severity, dimension) == [id |-> id, severity |-> severity, dimension |-> dimension]

SizeIssues(chunk) ==
    LET tokens == Tokens(chunk.text)
        several == Len(Siblings(chunk)) > 1 /\ ~chunk.generated
    IN  When(tokens > thresholds.most, Issue("oversized_chunk", "medium", "size"))
        \o When(tokens <= thresholds.most /\ several /\ tokens < thresholds.fewest,
                Issue("undersized_chunk", "low", "size"))
        \o When(several /\ TwiceMedian(chunk) # 0 /\ 2 * tokens > TwiceMedian(chunk) * thresholds.outlier,
                Issue("extreme_size_outlier", "low", "size"))
        \o When(~chunk.generated /\ 100 * Characters(chunk.text) >= chunk.maximum * thresholds.near,
                Issue("near_character_limit", "low", "size"))

SplitIssues(chunk) ==
    LET Split(kind) == Issue(kind, "medium", "structure")
    IN  IF ~chunk.forced \/ ForcedRun(chunk) # 0 THEN <<>>
        ELSE IF chunk.kinds = {} THEN <<Split("forced_split")>>
        ELSE When("table" \in chunk.kinds, Split("table_split"))
             \o When("code" \in chunk.kinds, Split("code_block_split"))
             \o When("list" \in chunk.kinds, Split("list_split"))

(* The first and last word of a chunk, where its neighbours are.  A chunk  *)
(* made by the scanner itself is only judged where it was cut by force.    *)
BoundaryIssues(chunk) ==
    LET words == Flat(chunk.text)
        Cut(run) == chunk.generated /\ chunk.forced /\ ForcedRun(chunk) = run
        starts == (~chunk.generated /\ Position(chunk) > 1) \/ Cut(1)
        ends == (~chunk.generated /\ Position(chunk) < Len(Siblings(chunk))) \/ Cut(0)
    IN  When(starts /\ words[1] \in Words.lower, Issue("middle_sentence_start", "low", "structure"))
        \o When(ends /\ Alphanumeric(words[Len(words)]), Issue("middle_sentence_end", "low", "structure"))

NumericIssues(chunk) ==
    LET marked == chunk.text[1] \in Boilerplate
    IN  When(marked \/ ~chunk.generated \/ chunk.forced,
             Issue(IF marked THEN "page_number_only_chunk" ELSE "numeric_only_chunk", "low", "content"))

Commonest(sequence) == Max({Cardinality({i \in DOMAIN sequence : sequence[i] = x}) : x \in ToSet(sequence)})
Occurring(words, S) == Cardinality({i \in DOMAIN words : words[i] \in S})

ContentIssues(chunk) ==
    LET text == chunk.text
        words == Vocabulary(text)
        sampled == Len(words) >= thresholds.sample
        repeats == sampled /\ Len(text) >= 3 /\ 10 * Commonest(text) >= 6 * Len(text)
        plate == SelectSeq(text, LAMBDA line : line \in Boilerplate \/ PageNumber(line))
        plateCharacters == FoldLeft(LAMBDA n, line : n + 2 * Len(line) - 1, 0, plate)
        dominated == 100 * plateCharacters >= thresholds.dominance * Characters(text)
        odd == Occurring(Flat(text), Words.unprintable)
        broken == Occurring(Flat(text), Words.replacements)
        lexical == sampled /\ chunk.kinds \cap {"code", "table"} = {} /\ ~repeats /\ ~dominated
        dull == lexical /\ 100 * Commonest(words) >= thresholds.repeated * Len(words)
    IN  When(repeats, Issue("repeated_line_chunk", "low", "content"))
        \o When(dominated, Issue("boilerplate_dominated_chunk", "low", "content"))
        \o When(100 * odd > 15 * Characters(text), Issue("low_printable_ratio", "medium", "extraction"))
        \o When(20 * Occurring(Flat(text), Words.markers) > Tokens(text),
                Issue("excessive_control_markers", "medium", "extraction"))
        \o When(dull, Issue("highly_repetitive_tokens", "low", "content"))
        \o When(lexical /\ ~dull /\ 100 * Cardinality(ToSet(words)) < thresholds.density * Len(words),
                Issue("low_information_density", "low", "content"))
        \o When(broken >= 3 \/ 50 * broken > Characters(text), Issue("garbled_extraction", "medium", "extraction"))

(* _issues *)
Issues(chunk) ==
    LET words == Flat(chunk.text)
        punctuation == \A i \in DOMAIN words : ~Alphanumeric(words[i])
        front == SizeIssues(chunk) \o SplitIssues(chunk)
        bounded == front \o BoundaryIssues(chunk)
    IN  IF words = <<>> THEN <<Issue("empty_chunk", "high", "content")>>
        ELSE IF HeadingOnly(chunk) THEN front
        ELSE IF words \in {<<w>> : w \in Words.digits} THEN bounded \o NumericIssues(chunk)
        ELSE bounded \o When(punctuation, Issue("punctuation_only_chunk", "medium", "content"))
                     \o ContentIssues(chunk)

(* _overlap_issue: what a chunk repeats of the one before *)
OverlapIssue(previous, chunk) ==
    LET left == Vocabulary(previous.text)
        right == Vocabulary(chunk.text)
        shared == Max({0} \cup {n \in 1..Least(Len(left), Len(right)) :
                                  Drop(left, Len(left) - n) = Take(right, n)})
        both == Cardinality(ToSet(left) \cap ToSet(right))
    IN  IF previous.document # chunk.document \/ (previous.generated /\ chunk.generated) THEN <<>>
        ELSE IF 100 * shared >= thresholds.overlap * Most(1, Len(right))
             THEN <<Issue("excessive_overlap", "medium", "overlap")>>
        ELSE When(left # <<>> /\ right # <<>> /\ 10 * both >= 9 * Cardinality(ToSet(left) \cup ToSet(right)),
                  Issue("near_identical_neighbor_chunks", "low", "overlap"))

Dimensions == {"size", "structure", "content", "overlap", "extraction", "mapping"}
Penalty(severity) == CASE severity = "low" -> 8 [] severity = "medium" -> 18 [] severity = "high" -> 35

(* _score: what is left of 100 in each dimension *)
Grade(issues) ==
    [d \in Dimensions |-> Most(0, 100 - FoldLeft(
        LAMBDA n, issue : n + (IF issue.dimension = d THEN Penalty(issue.severity) ELSE 0), 0, issues))]

CollectsChunks ==
    /\ qstep = "start" /\ thresholds.scanner = "chunk"
    /\ LET chunks == Ordered(collection.chunks, LAMBDA c : 1000 * c.document + c.id)
       IN  /\ things' = Take(chunks, thresholds.chunks)
           /\ ahead' = [i \in DOMAIN things' |-> i]
           /\ passed' = Ids(Drop(chunks, thresholds.chunks))
           /\ cautioned' = IF Len(chunks) > thresholds.chunks THEN {"maximum_chunks"} ELSE {}
    /\ qstep' = "judge"
    /\ UNCHANGED <<collection, thresholds, links, closed, groups, grades, judged>>

AllIssues(i) == Issues(things[i]) \o (IF i > 1 THEN OverlapIssue(things[i - 1], things[i]) ELSE <<>>)

Orphan(chunk) == chunk.document \notin {d.id : d \in collection.docs}

JudgesChunk ==
    /\ qstep = "judge" /\ ahead # <<>>
    /\ LET chunk == things[Head(ahead)]
           issues == AllIssues(Head(ahead))
           found == [i \in DOMAIN issues |-> [item |-> chunk.id, issue |-> issues[i].id]]
           room == thresholds.findings - Len(judged)
           full == issues # <<>> /\ Len(issues) >= room
       IN  IF Orphan(chunk)
           THEN /\ passed' = passed \cup {chunk.id}
                /\ ahead' = Tail(ahead)
                /\ UNCHANGED <<grades, judged, cautioned>>
           ELSE /\ grades' = [id \in DOMAIN grades \cup {chunk.id} |->
                                IF id = chunk.id THEN Grade(issues) ELSE grades[id]]
                /\ judged' = judged \o Take(found, room)
                /\ cautioned' = cautioned \cup (IF full THEN {"maximum_findings"} ELSE {})
                /\ ahead' = IF full THEN <<>> ELSE Tail(ahead)
                /\ UNCHANGED passed
    /\ UNCHANGED <<collection, thresholds, qstep, things, links, closed, groups>>

OutOfTime ==
    /\ qstep = "judge" /\ ahead # <<>>
    /\ passed' = passed \cup {things[ahead[i]].id : i \in DOMAIN ahead}
    /\ cautioned' = cautioned \cup {"time"}
    /\ ahead' = <<>>
    /\ UNCHANGED <<collection, thresholds, qstep, things, links, closed, groups, grades, judged>>

(* Documents with too many chunks for their length, after all chunks; what *)
(* exceeds the limit of findings is cut without a further warning.         *)
JudgesDocuments ==
    /\ qstep = "judge" /\ ahead = <<>>
    /\ LET Upstream(d) == SelectSeq(things, LAMBDA c : c.document = d.id /\ ~c.generated)
           Excessive(d) == Upstream(d) # <<>> /\
               1000 * Len(Upstream(d)) > thresholds.excessive * Most(1000, Characters(d.text))
           many == SelectSeq(InOrder(collection.docs), Excessive)
       IN  judged' = Take(judged \o [i \in DOMAIN many |->
                             [item |-> Upstream(many[i])[1].id, issue |-> "excessive_chunk_count"]],
                          thresholds.findings)
    /\ qstep' = "done"
    /\ UNCHANGED <<collection, thresholds, things, ahead, links, closed, groups, grades, passed, cautioned>>
-------------------------------------------------------------------------------
QualityFresh ==
    /\ things = <<>> /\ ahead = <<>> /\ links = {} /\ closed = {} /\ groups = <<>>
    /\ grades = <<>> /\ judged = <<>> /\ passed = {} /\ cautioned = {}

QualityIdle == collection = Nothing /\ thresholds = Nothing /\ qstep = "off" /\ QualityFresh

QualityInit ==
    /\ collection \in Collections /\ thresholds \in QualityConfigs /\ qstep = "start" /\ QualityFresh

QualityNext ==
    \/ CollectsItems \/ GroupsDuplicates \/ ReportsDuplicates
    \/ CollectsNear \/ Compares \/ GroupsNear \/ ReportsNear
    \/ CollectsChunks \/ JudgesChunk \/ OutOfTime \/ JudgesDocuments
-------------------------------------------------------------------------------
(* Properties. *)

(* The state of the scanner has its types: its groups have two members or  *)
(* more (DuplicateGroup) and a grade lies between 0 and 100.               *)
QualityTypeOK ==
    /\ qstep \in {"off", "start", "group", "compare", "judge", "done"}
    /\ \A i \in DOMAIN groups : Len(groups[i].members) >= 2 /\ groups[i].similarity \in 0..10000
    /\ \A id \in DOMAIN grades : \A d \in Dimensions : grades[id][d] \in 0..100
    /\ qstep # "off" => Len(judged) <= thresholds.findings
    /\ cautioned \subseteq {"maximum_documents", "maximum_chunks", "maximum_groups", "maximum_findings",
                            "maximum_candidates", "time"}

MembersOf(group) == ToSet(group.members)
Together(a, b) == \E i \in DOMAIN groups : {a, b} \subseteq MembersOf(groups[i])
Limited == cautioned \cap {"maximum_groups", "time"} # {}

(* No item is a duplicate twice, and the member that is kept is the first. *)
GroupsAreApart ==
    /\ \A i, j \in DOMAIN groups : i # j => MembersOf(groups[i]) \cap MembersOf(groups[j]) = {}
    /\ \A i \in DOMAIN groups : \A id \in MembersOf(groups[i]) :
          CanonicalKey(Named(groups[i].members[1])) <= CanonicalKey(Named(id))

(* A finished scan of exact duplicates has put two items together when     *)
(* they say the same and, unless a limit was warned of, only then; nothing *)
(* left out by a limit is missing among the skipped.                       *)
ExactIsExact ==
    (thresholds.scanner = "exact" /\ qstep = "done") =>
        /\ \A a, b \in ToSet(things) : a # b =>
              /\ Together(a.id, b.id) => a.type = b.type /\ a.text = b.text
              /\ (a.type = b.type /\ a.text = b.text /\ a.text # <<>>) => Together(a.id, b.id) \/ Limited
        /\ \A d \in collection.docs : d.id \in Ids(things) \cup passed
        /\ Len(judged) < Len(groups) => "maximum_findings" \in cautioned

(* A finished scan of near duplicates has put two items together whenever  *)
(* it found them similar, except that what is alike in several sources is  *)
(* not grouped with what one of the sources itself repeats; the similarity *)
(* of a group is that of its least similar pair, and chunks of one source  *)
(* are never mixed with chunks of several.                                 *)
NearIsNear ==
    (thresholds.scanner = "near" /\ qstep = "done") =>
        /\ \A l \in links :
              \/ Together(l.left, l.right)
              \/ "maximum_groups" \in cautioned
              \/ /\ Named(l.left).path # Named(l.right).path
                 /\ {Named(l.left).path, Named(l.right).path}
                       \cap RepeatedSources({Named(id) : id \in Component(l.left)}) # {}
        /\ \A i \in DOMAIN groups :
              LET paths == {Named(id).path : id \in MembersOf(groups[i])}
                  pairs == {l \in links : {l.left, l.right} \subseteq MembersOf(groups[i])}
              IN  /\ groups[i].similarity >= thresholds.threshold
                  /\ pairs # {} /\ \A l \in pairs : groups[i].similarity <= l.score
                  /\ groups[i].category = "within_document_near_duplicates" => Cardinality(paths) = 1
                  /\ groups[i].category = "near_duplicate_chunk"
                       => Cardinality(paths) = Len(groups[i].members)

(* A finished scan of chunks has either graded or skipped each of them,    *)
(* unless it warned that its findings were limited; a chunk keeps full     *)
(* marks exactly when nothing was found in it.                             *)
ChunksAreGraded ==
    (thresholds.scanner = "chunk" /\ qstep = "done") =>
        /\ DOMAIN grades \cap passed = {}
        /\ {c.id : c \in collection.chunks} = DOMAIN grades \cup passed
              \/ "maximum_findings" \in cautioned
        /\ \A i \in DOMAIN things :
              LET id == things[i].id
                  told == {judged[n].issue : n \in {k \in DOMAIN judged : judged[k].item = id}}
                             \ {"excessive_chunk_count"}
              IN  id \in DOMAIN grades =>
                    /\ ((\A d \in Dimensions : grades[id][d] = 100) <=> AllIssues(i) = <<>>)
                    /\ "maximum_findings" \notin cautioned /\ Len(judged) < thresholds.findings
                         => told = {AllIssues(i)[n].id : n \in DOMAIN AllIssues(i)}

(* What the three scanners promise of their results, whatever limit or     *)
(* clock cut them short (quality/scanners.py).                             *)
QualityIsAccountable ==
    qstep # "off" => GroupsAreApart /\ ExactIsExact /\ NearIsNear /\ ChunksAreGraded
===============================================================================
