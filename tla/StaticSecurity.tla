----------------------------- MODULE StaticSecurity ----------------------------
(***************************************************************************)
(* The static security scanner on one document: rule selection, the        *)
(* targets a document is taken apart into, the matchers, the context a     *)
(* match needs, the limits that end a rule or the scan, and the place and  *)
(* evidence of a finding.  A text is a sequence of symbols; offsets and    *)
(* windows count symbols.  The clock may pass its limit at any rule.       *)
(***************************************************************************)
EXTENDS Cuts

CONSTANTS
    ScanDocs,        \* [raw, norm, segments, chunks, title, fields, notices, notes, place]
    Libraries,       \* sequences of rules in the order of their ids
    Selections,      \* [ids, excluded, categories, scopes, disabled, pii]
    ScanLimits,      \* [rules, perRule, findings, fields, input, depth, evidence]
    ContextWindow,   \* 200 in the code
    Symbols          \* what symbols are: [agent, docs, benign, placeholder, secrets, masked : sets of
                     \* symbols, decodes : symbol -> symbol, reasons : url -> set, plainHttp : urls,
                     \* pii : symbol -> kind, digits : symbol -> sequence]

MatcherTypes == {"exact", "substring_ci", "regex", "annotation_type", "warning_code", "metadata_field",
                 "decoded_content", "url_property", "secret_pattern", "pii_pattern"}

(* Offsets are places of the text, a segment ends on no line before its    *)
(* first, no two rules have an id, patterns are not empty, limits are      *)
(* positive (normalization/pipeline.py, security/static_models.py).        *)
ASSUME StaticAssumption ==
    /\ \A d \in ScanDocs :
         /\ IsList(d.raw) /\ IsList(d.norm) /\ IsList(d.title) /\ IsList(d.segments) /\ IsList(d.chunks)
         /\ IsList(d.fields) /\ IsList(d.notices) /\ IsList(d.notes)
         /\ \A s \in ToSet(d.segments) :
              s.from \in Nat /\ s.to \in Nat /\ s.first \in Nat /\ s.last \in Nat /\ s.first <= s.last
         /\ \A c \in ToSet(d.chunks) \cup ToSet(d.notes) : c.from \in Nat /\ c.to \in c.from..Len(d.norm)
         /\ \A c \in ToSet(d.chunks) : IsList(c.headings) /\ \A h \in ToSet(c.headings) : IsList(h)
         /\ \A f \in ToSet(d.fields) : IsList(f.text)
    /\ \A rules \in Libraries :
         /\ IsList(rules)
         /\ \A i, j \in DOMAIN rules : rules[i].id = rules[j].id => i = j
         /\ \A r \in ToSet(rules) :
              /\ IsList(r.matchers)
              /\ \A m \in ToSet(r.matchers) :
                   /\ m.type \in MatcherTypes /\ IsList(m.patterns)
                   /\ \A p \in ToSet(m.patterns) : IsList(p) /\ p # <<>>
    /\ \A limits \in ScanLimits :
         /\ limits.rules \in Nat /\ limits.fields \in Nat /\ limits.input \in Nat
         /\ limits.perRule \in Nat \ {0} /\ limits.findings \in Nat \ {0}

VARIABLES
    doc, library, selection, bounds,
    sstep,           \* "select", "scan" or "done"
    todo,            \* rules still to evaluate
    evaluated, skipped,
    findings,
    cautions         \* codes of the warnings, with their rules

staticVars == <<doc, library, selection, bounds, sstep, todo, evaluated, skipped, findings, cautions>>

Absent == [absent |-> TRUE]

-------------------------------------------------------------------------------
(* StaticRuleLibrary.select *)

Accepts(rule, sel) ==
    /\ rule.enabled \/ sel.disabled \/ (sel.pii /\ rule.category = "pii")
    /\ rule.id \notin sel.excluded
    /\ sel.ids = {} \/ rule.id \in sel.ids
    /\ sel.categories = {} \/ rule.category \in sel.categories
    /\ sel.scopes = {} \/ sel.scopes \cap rule.scope # {}

Selects ==
    /\ sstep = "select"
    /\ LET accepted == Those(library, LAMBDA rule : Accepts(rule, selection))
           refused == {r.id : r \in {r \in ToSet(library) : ~Accepts(r, selection)}}
       IN  /\ todo' = Take(accepted, bounds.rules)
           /\ skipped' = refused \cup {r.id : r \in ToSet(Drop(accepted, bounds.rules))}
    /\ sstep' = "scan"
    /\ cautions' = IF Len(doc.fields) > bounds.fields THEN {<<"metadata_field_limit_reached", 0>>} ELSE {}
    /\ UNCHANGED <<doc, library, selection, bounds, evaluated, findings>>

-------------------------------------------------------------------------------
(* The place of a range of the normalized text: the pages and lines of the *)
(* segments it meets.                                                      *)

Known(S) == S \ {0}

Lowest(S, other) == IF Known(S) = {} THEN other ELSE CHOOSE x \in Known(S) : \A y \in Known(S) : x <= y
Highest(S, other) == IF Known(S) = {} THEN other ELSE CHOOSE x \in Known(S) : \A y \in Known(S) : x >= y

SourceForRange(d, fallback, start, end) ==
    LET met == {s \in ToSet(d.segments) : start < s.to /\ s.from < end}
    IN  IF met = {} THEN fallback
        ELSE [page |-> Lowest({s.page : s \in met}, fallback.page),
              first |-> Lowest({s.first : s \in met}, fallback.first),
              last |-> Highest({s.last : s \in met}, fallback.last)]

(* What the matchers are applied to.  Only chunks, annotated regions and   *)
(* urls have an offset of their own: what is found in a title, a heading   *)
(* of a chunk or a metadata field is located as if the text began with it. *)
Region(scope, text, place, chunk, offset, field) ==
    [scope |-> scope, text |-> text, place |-> place, chunk |-> chunk, offset |-> offset, field |-> field]

ChunkRegions(d, i) ==
    LET c == d.chunks[i]
        place == SourceForRange(d, d.place, c.from, c.to)
    IN  <<Region("chunk", SubSeq(d.norm, c.from + 1, c.to), place, i, c.from, "")>>
          \o [h \in DOMAIN c.headings |-> Region("heading", c.headings[h], place, i, 0, "")]

ChunkTargets(d) == Chained([i \in DOMAIN d.chunks |-> ChunkRegions(d, i)])

Structural == [heading_region |-> "heading", table_region |-> "table_cell", code_region |-> "code_block"]

AnnotationTargets(d) ==
    LET place(n) == SourceForRange(d, d.place, n.from, n.to)
        marked == Those(d.notes, LAMBDA n : n.type \in DOMAIN Structural)
    IN  [i \in DOMAIN d.notes |->
           Region("normalization_annotation", <<d.notes[i].type>>, place(d.notes[i]), 0, d.notes[i].from, "")]
        \o [i \in DOMAIN marked |->
           Region(Structural[marked[i].type], SubSeq(d.norm, marked[i].from + 1, marked[i].to),
                  place(marked[i]), 0, marked[i].from, "")]

UrlSymbols == DOMAIN Symbols.reasons

UrlTargets(d) ==
    LET at == InTurn({i \in DOMAIN d.norm : d.norm[i] \in UrlSymbols})
    IN  [i \in DOMAIN at |-> Region("url", <<d.norm[at[i]]>>, d.place, 0, at[i] - 1, "")]

Targets(d, limits) ==
    <<Region("raw_document", d.raw, d.place, 0, 0, ""), Region("normalized_document", d.norm, d.place, 0, 0, "")>>
    \o (IF d.title = <<>> THEN <<>> ELSE <<Region("title", d.title, d.place, 0, 0, "title")>>)
    \o ChunkTargets(d)
    \o LET fields == Take(d.fields, limits.fields)
       IN  [i \in DOMAIN fields |-> Region("metadata", fields[i].text, d.place, 0, 0, fields[i].name)]
    \o [i \in DOMAIN d.notices |->
          Region("parser_warning", <<d.notices[i].code>>, [d.place EXCEPT !.page = d.notices[i].page], 0, 0, "")]
    \o AnnotationTargets(d) \o UrlTargets(d)

-------------------------------------------------------------------------------
(* _match *)

Occurs(text, pattern) == {p \in 0..(Len(text) - Len(pattern)) : SubSeq(text, p + 1, p + Len(pattern)) = pattern}

Hit(from, to) == [from |-> from, to |-> to]

Whole(text) == <<Hit(0, Len(text))>>

(* From left to right, each after the end of the one before. *)
Apart(places, width) ==
    CHOOSE S \in SUBSET places : \A p \in places : p \in S <=> \A q \in S : q < p => q + width <= p

Hits(text, pattern) ==
    LET at == InTurn(Apart(Occurs(text, pattern), Len(pattern)))
    IN  [i \in DOMAIN at |-> Hit(at[i], at[i] + Len(pattern))]

(* Each pattern in turn. *)
Found(text, patterns) == Chained([i \in DOMAIN patterns |-> Hits(text, patterns[i])])

FirstFound(text, patterns) == Chained([i \in DOMAIN patterns |-> Take(Hits(text, patterns[i]), 1)])

(* The symbols at these places, each by itself. *)
Singles(places) == LET at == InTurn(places) IN [i \in DOMAIN at |-> Hit(at[i] - 1, at[i])]

Single(text, P(_)) == Singles({i \in DOMAIN text : P(text[i])})

(* An encoded payload is decoded as long as it is not yet an indicator, is *)
(* encoded once more, and the depth allows.                                *)
Decoded(symbol, indicators, depth) ==
    LET layer[k \in 1..depth] ==
          LET inner == IF k = 1 THEN symbol ELSE layer[k - 1]
          IN  IF (k > 1 /\ <<inner>> \in indicators) \/ inner \notin DOMAIN Symbols.decodes
              THEN inner ELSE Symbols.decodes[inner]
    IN  layer[depth]

DecodedMatches(text, patterns, depth) ==
    IF depth = 0 THEN <<>>
    ELSE Single(text, LAMBDA x : x \in DOMAIN Symbols.decodes
                                 /\ <<Decoded(x, ToSet(patterns), depth)>> \in ToSet(patterns))

Window(text, hit, width) ==
    ToSet(SubSeq(text, Most(0, hit.from - width) + 1, Least(Len(text), hit.to + width)))

(* Plain http counts against a url only in the company of an instruction.  *)
UrlMatches(text) ==
    Those(Single(text, LAMBDA x : x \in UrlSymbols),
              LAMBDA h : \/ Symbols.reasons[text[h.to]] # {}
                         \/ text[h.to] \in Symbols.plainHttp
                            /\ Window(text, h, ContextWindow \div 2) \cap Symbols.agent # {})

SecretMatches(text) == Single(text, LAMBDA x : x \in Symbols.secrets \ Symbols.placeholder)

Luhn(digits) ==
    LET worth(i) == IF (i - 1) % 2 # Len(digits) % 2 THEN digits[i]
                    ELSE IF 2 * digits[i] > 9 THEN 2 * digits[i] - 9 ELSE 2 * digits[i]
    IN  Len(digits) \in 13..19 /\ FoldLeft(LAMBDA n, i : n + worth(i), 0, [i \in DOMAIN digits |-> i]) % 10 = 0

ValidTc(digits) ==
    LET total(S) == FoldLeft(LAMBDA n, i : n + (IF i \in S THEN digits[i] ELSE 0), 0, [i \in DOMAIN digits |-> i])
    IN  /\ Len(digits) = 11 /\ digits[1] # 0
        /\ (total({1, 3, 5, 7, 9}) * 7 - total({2, 4, 6, 8})) % 10 = digits[10]
        /\ total(1..10) % 10 = digits[11]

PiiMatches(text) ==
    Single(text, LAMBDA x : /\ x \in DOMAIN Symbols.pii
                            /\ Symbols.pii[x] = "turkish_identity" => ValidTc(Symbols.digits[x])
                            /\ Symbols.pii[x] = "payment_card" => Luhn(Symbols.digits[x])
                            /\ Symbols.pii[x] = "ip_address" =>
                                 \A n \in ToSet(Symbols.digits[x]) : n \in 0..255)

Matches(m, t, limits) ==
    CASE m.type = "exact" -> IF t.text \in ToSet(m.patterns) THEN Whole(t.text) ELSE <<>>
      [] m.type = "substring_ci" -> Found(t.text, m.patterns)
      [] m.type = "regex" -> Found(Take(t.text, limits.input), m.patterns)
      [] m.type = "annotation_type" ->
           IF t.scope = "normalization_annotation" /\ t.text \in ToSet(m.patterns) THEN Whole(t.text) ELSE <<>>
      [] m.type = "warning_code" ->
           IF t.scope = "parser_warning" /\ t.text \in ToSet(m.patterns) THEN Whole(t.text) ELSE <<>>
      [] m.type = "metadata_field" ->
           IF t.scope \in {"metadata", "title"} /\ (m.fields = {} \/ t.field \in m.fields)
           THEN FirstFound(t.text, m.patterns) ELSE <<>>
      [] m.type = "decoded_content" -> DecodedMatches(t.text, m.patterns, limits.depth)
      [] m.type = "url_property" -> UrlMatches(t.text)
      [] m.type = "secret_pattern" -> SecretMatches(t.text)
      [] m.type = "pii_pattern" -> PiiMatches(t.text)

-------------------------------------------------------------------------------
(* A match becomes a finding. *)

ContextAllows(rule, t, hit) ==
    LET near == Window(t.text, hit, ContextWindow)
    IN  /\ near \cap rule.exclusions = {}
        /\ "agent_instruction" \in rule.requires =>
             near \cap Symbols.agent # {} /\ near \cap Symbols.docs = {}
        /\ "not_placeholder" \in rule.requires =>
             ToSet(SubSeq(t.text, hit.from + 1, hit.to)) \cap Symbols.placeholder = {}

(* Percent. *)
Confidence(rule, type, benign) ==
    LET base == Most(10, rule.confidence - (IF benign THEN 35 ELSE 0))
    IN  IF type \in {"pii_pattern", "url_property", "decoded_content"} THEN Least(base, 78) ELSE base

Classification(rule, confidence, benign) ==
    IF benign \/ confidence < 55 THEN "ambiguous"
    ELSE IF rule.detection = "deterministic" /\ confidence >= 90
            /\ rule.category \in {"secret_exposure", "hidden_content"}
    THEN "confirmed" ELSE "probable"

(* A secret is taken out of the evidence of its own rule, whatever its     *)
(* form; of others, the forms that are masked everywhere.                  *)
SafeEvidence(symbols, type) == symbols \ (IF type = "secret_pattern" THEN Symbols.secrets ELSE Symbols.masked)

(* Mutant of FindingOf: the offset of the target is forgotten. *)
FindingOf_NoOffset(d, limits, rule, t, m, hit) ==
    LET near == Window(t.text, hit, limits.evidence \div 2)
        benign == near \cap Symbols.benign # {} \/ t.scope = "code_block"
        confidence == Confidence(rule, m.type, benign)
    IN  [rule |-> rule.id, type |-> m.type, scope |-> t.scope, chunk |-> t.chunk,
         from |-> hit.from, to |-> hit.to, place |-> SourceForRange(d, t.place, hit.from, hit.to),
         class |-> Classification(rule, confidence, benign), shown |-> SafeEvidence(near, m.type)]

FindingOf(d, limits, rule, t, m, hit) ==
    LET near == Window(t.text, hit, limits.evidence \div 2)
        benign == near \cap Symbols.benign # {} \/ t.scope = "code_block"
        confidence == Confidence(rule, m.type, benign)
        from == t.offset + hit.from
        to == t.offset + hit.to
    IN  [rule |-> rule.id, type |-> m.type, scope |-> t.scope, chunk |-> t.chunk,
         from |-> from, to |-> to, place |-> SourceForRange(d, t.place, from, to),
         class |-> Classification(rule, confidence, benign), shown |-> SafeEvidence(near, m.type)]

(* Where there are chunks, a rule about chunks leaves the whole text out.  *)
Applies(d, rule, t) ==
    /\ t.scope \in rule.scope
    /\ ~(d.chunks # <<>> /\ "chunk" \in rule.scope /\ t.scope \in {"raw_document", "normalized_document"})

FindingsAt(d, limits, rule, t, m) ==
    LET hits == Those(Matches(m, t, limits), LAMBDA h : ContextAllows(rule, t, h))
    IN  [i \in DOMAIN hits |-> FindingOf(d, limits, rule, t, m, hits[i])]

FindingsIn(d, limits, rule, t) ==
    Chained([i \in DOMAIN rule.matchers |-> FindingsAt(d, limits, rule, t, rule.matchers[i])])

Candidates(d, limits, rule) ==
    LET regions == Those(Targets(d, limits), LAMBDA t : Applies(d, rule, t))
    IN  Chained([i \in DOMAIN regions |-> FindingsIn(d, limits, rule, regions[i])])

-------------------------------------------------------------------------------
(* The loop over the rules. *)

TimesOut ==
    /\ sstep = "scan" /\ todo # <<>>
    /\ cautions' = cautions \cup {<<"scan_time_limit_reached", 0>>}
    /\ skipped' = skipped \cup {r.id : r \in ToSet(todo)}
    /\ todo' = <<>>
    /\ UNCHANGED <<doc, library, selection, bounds, sstep, evaluated, findings>>

InputBounded(d, limits, rule) ==
    \E m \in ToSet(rule.matchers), t \in ToSet(Targets(d, limits)) :
        m.type = "regex" /\ Applies(d, rule, t) /\ Len(t.text) > limits.input

(* The limit on findings ends the scan: the rules after this one are then  *)
(* neither evaluated nor skipped.  The limit on a rule ends the rule.      *)
EvaluatesRule ==
    /\ sstep = "scan" /\ todo # <<>>
    /\ LET rule == Head(todo)
           new == Take(Candidates(doc, bounds, rule), Least(bounds.perRule, bounds.findings - Len(findings)))
           full == new # <<>> /\ Len(findings) + Len(new) >= bounds.findings
       IN  /\ findings' = findings \o new
           /\ evaluated' = evaluated \cup {rule.id}
           /\ todo' = IF full THEN <<>> ELSE Tail(todo)
           /\ cautions' = cautions
                \cup (IF InputBounded(doc, bounds, rule) THEN {<<"regex_input_bounded", 0>>} ELSE {})
                \cup (IF full THEN {<<"maximum_findings_reached", 0>>}
                      ELSE IF Len(new) = bounds.perRule THEN {<<"maximum_matches_per_rule_reached", rule.id>>}
                      ELSE {})
    /\ UNCHANGED <<doc, library, selection, bounds, sstep, skipped>>

Scanned ==
    /\ sstep = "scan" /\ todo = <<>>
    /\ sstep' = "done"
    /\ UNCHANGED <<doc, library, selection, bounds, todo, evaluated, skipped, findings, cautions>>

StaticIdle ==
    /\ doc = Absent /\ library = <<>> /\ selection = Absent /\ bounds = Absent
    /\ sstep = "off" /\ todo = <<>> /\ evaluated = {} /\ skipped = {} /\ findings = <<>> /\ cautions = {}

StaticInit ==
    /\ doc \in ScanDocs /\ library \in Libraries /\ selection \in Selections /\ bounds \in ScanLimits
    /\ sstep = "select" /\ todo = <<>> /\ evaluated = {} /\ skipped = {} /\ findings = <<>> /\ cautions = {}

StaticNext == Selects \/ TimesOut \/ EvaluatesRule \/ Scanned

-------------------------------------------------------------------------------
(* Properties. *)

StaticTypeOK ==
    /\ sstep \in {"off", "select", "scan", "done"}
    /\ sstep # "off" => /\ Len(findings) <= bounds.findings
                        /\ \A f \in ToSet(findings) : f.rule \in evaluated
    /\ evaluated \cap skipped = {}

Cautioned(code) == \E c \in cautions : c[1] = code

(* Every rule is accounted for, unless the findings filled up.             *)
RulesAccounted ==
    ~Cautioned("maximum_findings_reached") =>
        evaluated \cup skipped = {r.id : r \in ToSet(library)}

Phrases(rule) == UNION {ToSet(m.patterns) : m \in {m \in ToSet(rule.matchers) : m.type = "substring_ci"}}

(* What one of a rule's patterns says of some chunk, in a context that     *)
(* allows it and not across an earlier place of the pattern in the chunk,  *)
(* is found in that chunk, at its lines.                                   *)
ChunksSearched ==
    \A rule \in {r \in ToSet(library) : r.id \in evaluated /\ "chunk" \in r.scope} :
      ~Cautioned("maximum_findings_reached") /\ <<"maximum_matches_per_rule_reached", rule.id>> \notin cautions =>
        \A i \in DOMAIN doc.chunks, pattern \in Phrases(rule) :
          \A p \in Occurs(doc.norm, pattern) :
            LET c == doc.chunks[i]
                hit == Hit(p - c.from, p + Len(pattern) - c.from)
                text == SubSeq(doc.norm, c.from + 1, c.to)
            IN  /\ c.from <= p /\ p + Len(pattern) <= c.to
                /\ \A q \in Occurs(text, pattern) : q < hit.from => q + Len(pattern) <= hit.from
                /\ ContextAllows(rule, [text |-> text], hit)
                => \E f \in ToSet(findings) :
                     /\ f.rule = rule.id /\ f.chunk = i /\ f.from = p
                     /\ \A s \in ToSet(doc.segments) :
                          s.from <= p /\ p < s.to /\ s.first # 0 => f.place.first <= s.first /\ s.first <= f.place.last

(* A scan that ends accounts for its rules, finds what a chunk says, puts  *)
(* each finding where its text is, and does not show the secret it found.  *)
StaticScanIsTrue ==
    sstep = "done" =>
        /\ RulesAccounted
        /\ ChunksSearched
        /\ \A f \in ToSet(findings) : f.type = "secret_pattern" => f.shown \cap Symbols.secrets = {}
===============================================================================
