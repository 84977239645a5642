------------------------------- MODULE Advisory --------------------------------
(***************************************************************************)
(* The optional analysis of a report by a model: what of the report is     *)
(* sent, how the providers are asked and asked again, how an answer        *)
(* becomes an analysis or a failure, and what the report says of it.       *)
(* A text is what its checks look for: the severities and numbers it       *)
(* names, a phrase that plays the findings down, its language. An id is a  *)
(* number, as it is only compared for order.                               *)
(***************************************************************************)
EXTENDS Cuts

CONSTANTS
    Reports,         \* [findings, duplicates, counts, skipped]
    AIConfigs,       \* [enabled, provider, model, url, credential, consent]
    Answers,         \* texts a model may write, see Prose and JSONObject
    Catalog,         \* provider -> [protocol, url]
    Urls,            \* url -> [valid, loopback, https]
    Available,       \* credential references that can be resolved
    StaticRules,     \* the security rules
    Responses,       \* bodies of an answered request, see OllamaContent and below
    Inventories,     \* what a provider may answer to "which models are there"
    MaxGroups, MaxEvidence, MaxRetryGroups, MaxBraces, MaxList, MaxModels,
    MaxContext,      \* the units that the rest of the context leaves to the groups
    MaxRetryContext  \* as MaxContext, the second time

ASSUME ReportsAssumption ==
    \A r \in Reports :
      /\ IsList(r.findings)
      /\ \A f \in ToSet(r.findings) :
           f.id \in Int /\ f.group \in Int /\ f.rule \in Int /\ f.severity \in {"critical", "high", "medium", "low", "info"}
      /\ \A group \in DOMAIN r.duplicates : IsList(r.duplicates[group])

ASSUME AnswersAssumption ==
    \A a \in Answers :
      /\ a.text \in [present : BOOLEAN, severities : SUBSET STRING, numbers : SUBSET Int, minor : BOOLEAN]
      /\ a.caveat \in [areas : SUBSET STRING, selection : BOOLEAN, full : BOOLEAN]
      /\ IsList(a.actions) /\ \A x \in ToSet(a.actions) : "addresses" \in DOMAIN x /\ IsList(x.addresses)

ASSUME RequestLimitsAssumption ==
    /\ MaxGroups \in Nat /\ MaxEvidence \in Nat /\ MaxRetryGroups \in Nat /\ MaxList \in Nat
    /\ MaxContext \in Nat /\ MaxRetryContext \in Nat

VARIABLES
    report, aiConfig,
    astep,           \* where enrich_report is
    provider,        \* the adapter, once created
    request,         \* what build_analysis_request returned
    sent,            \* history: the requests to the model
    answer,          \* its last text
    analysis,        \* the report's ai_analysis
    failure,         \* the report's ai_analysis_error_code, and its detail
    models           \* the models discovered

advisoryVars == <<report, aiConfig, astep, provider, request, sent, answer, analysis, failure, models>>

None == [none |-> TRUE]
Severities == <<"critical", "high", "medium", "low", "info">>
Priority(severity) == CHOOSE i \in 1..5 : Severities[i] = severity

-------------------------------------------------------------------------------
(* build_analysis_request *)

(* Findings of one duplicate group, or else of one rule, belong together.  *)
GroupKey(f) == IF f.group # 0 THEN <<"group", f.group>> ELSE <<"rule", f.rule>>

Keys(r) == {GroupKey(f) : f \in ToSet(r.findings)}

Items(r, key) == Those(r.findings, LAMBDA f : GroupKey(f) = key)

UnsafeSources(r) == {f.source : f \in {f \in ToSet(r.findings) : f.rule \in StaticRules}} \ {0}

Members(r, key) ==
    IF key[1] = "group" /\ key[2] \in DOMAIN r.duplicates THEN r.duplicates[key[2]] ELSE <<>>

AffectedChunks(r, key) ==
    IF Members(r, key) # <<>> THEN Len(Members(r, key))
    ELSE Cardinality({f.chunk : f \in ToSet(Items(r, key))})

(* How urgent a group is: its first finding says so. *)
Urgency(r, key) == Priority(Items(r, key)[1].severity)

(* The most severe first, then the widest, then by key.  *)
Precedes(r, a, b) ==
    \/ Urgency(r, a) < Urgency(r, b)
    \/ /\ Urgency(r, a) = Urgency(r, b)
       /\ \/ AffectedChunks(r, a) > AffectedChunks(r, b)
          \/ /\ AffectedChunks(r, a) = AffectedChunks(r, b)
             /\ (a[1] = "group" /\ b[1] = "rule") \/ (a[1] = b[1] /\ a[2] < b[2])

MostUrgentFirst(r) == Ranked(Keys(r), LAMBDA a, b : Precedes(r, a, b))

Prioritized(r) == Take(MostUrgentFirst(r), MaxGroups)

(* Mutant of Snippet: the rule of the finding alone decides. *)
Snippet_RuleOnly(r, rule, source) == [source |-> source, quoted |-> rule \notin StaticRules]

(* The evidence of one place: its snippet is left out where the rule is    *)
(* one of the security rules, or any such rule struck the same source.     *)
Snippet(r, rule, source) ==
    [source |-> source, quoted |-> rule \notin StaticRules /\ source \notin UnsafeSources(r)]

Group(r, key) ==
    LET items == Items(r, key)
        members == Members(r, key)
        places == IF members # <<>> THEN [i \in DOMAIN members |-> [rule |-> items[1].rule, source |-> members[i]]]
                  ELSE items
    IN  [key |-> key, rule |-> items[1].rule, severity |-> items[1].severity,
         affected |-> AffectedChunks(r, key), compact |-> FALSE,
         matched |-> members # <<>> /\ ToSet(members) \cap UnsafeSources(r) = {},
         evidence |-> LET rows == Take(places, MaxEvidence)
                      IN  [i \in DOMAIN rows |-> Snippet(r, rows[i].rule, rows[i].source)]]

CompactGroup(g) == [g EXCEPT !.compact = TRUE, !.matched = FALSE, !.evidence = Take(g.evidence, 2)]

(* The characters of a group, in units. *)
Weight(g) == IF g.compact THEN 1 + Len(g.evidence)
             ELSE 3 + 2 * Len(g.evidence) + (IF g.matched THEN 1 ELSE 0)

EncodedCharacters(summary) == Total(DOMAIN summary, [i \in DOMAIN summary |-> Weight(summary[i])])

(* A group that does not fit is tried in its compact form, and the first   *)
(* that does not fit even so ends the summary.                             *)
Admit(r, summary, key) ==
    LET g == Group(r, key)
        whole == Append(summary, g)
    IN  IF EncodedCharacters(whole) <= MaxContext THEN whole ELSE Append(summary, CompactGroup(g))

Extended(r, s, key) ==
    IF ~s.full /\ EncodedCharacters(Admit(r, s.groups, key)) <= MaxContext
    THEN [s EXCEPT !.groups = Admit(r, s.groups, key)]
    ELSE [s EXCEPT !.full = TRUE]

Summary(r) ==
    LET keys == Prioritized(r)
        upTo[n \in 0..Len(keys)] ==
            IF n = 0 THEN [groups |-> <<>>, full |-> FALSE] ELSE Extended(r, upTo[n - 1], keys[n])
    IN  upTo[Len(keys)].groups

FindingIds(r, summary) == UNION {{f.id : f \in ToSet(Items(r, g.key))} : g \in ToSet(summary)}

GroupIds(r, g) == LET items == Items(r, g.key) IN [j \in DOMAIN items |-> items[j].id]

BuildAnalysisRequest(r) ==
    [groups |-> Summary(r),
     omitted |-> Cardinality(Keys(r)) - Len(Summary(r)),
     counts |-> r.counts, skipped |-> r.skipped,
     ids |-> FindingIds(r, Summary(r)),
     idsOf |-> [rule \in {g.rule : g \in ToSet(Summary(r))} |->
                  Chained([i \in DOMAIN Summary(r) |->
                             IF Summary(r)[i].rule = rule THEN GroupIds(r, Summary(r)[i]) ELSE <<>>])]]

(* The second time a group is short, with the places of its evidence only, *)
(* and there are fewer: the first that does not fit ends them.             *)
RetryGroup(g) ==
    LET rows == Take(g.evidence, 2)
    IN  [g EXCEPT !.compact = TRUE, !.matched = FALSE,
                  !.evidence = [j \in DOMAIN rows |-> [rows[j] EXCEPT !.quoted = FALSE]]]

RetryGroups(req) ==
    LET few == Take(req.groups, MaxRetryGroups)
        short == [i \in DOMAIN few |-> RetryGroup(few[i])]
        Fits(n) == EncodedCharacters(Take(short, n)) <= MaxRetryContext
    IN  Take(short, CHOOSE n \in 0..Len(short) : (\A m \in 0..n : Fits(m)) /\ (n = Len(short) \/ ~Fits(n + 1)))

Messages(req, attempt) ==
    [attempt |-> attempt,
     groups |-> IF attempt = "again" THEN RetryGroups(req) ELSE req.groups]


-------------------------------------------------------------------------------
(* create_analysis_provider *)

Local == {"ollama", "lm-studio"}

ValidSelection(c) ==
    /\ c.provider \in DOMAIN Catalog /\ c.model # ""
    /\ c.provider \notin Local => c.consent /\ c.credential # ""

BaseUrl(c) == IF c.url # "" THEN c.url ELSE Catalog[c.provider].url

ValidUrl(url, consent) ==
    /\ url # "" /\ Urls[url].valid
    /\ ~Urls[url].loopback => consent /\ Urls[url].https

Creatable(c) ==
    /\ c.credential # "" => c.credential \in Available
    /\ Catalog[c.provider].protocol \in {"anthropic", "gemini"} => c.credential # ""
    /\ ValidUrl(BaseUrl(c), c.consent)

Disabled ==
    /\ astep = "start" /\ ~aiConfig.enabled
    /\ astep' = "done"
    /\ UNCHANGED <<report, aiConfig, provider, request, sent, answer, analysis, failure, models>>

CannotCreate ==
    /\ astep = "start" /\ aiConfig.enabled /\ ~Creatable(aiConfig)
    /\ failure' = [code |-> IF aiConfig.credential # "" THEN "ai_credential_unavailable"
                            ELSE "ai_provider_configuration_invalid", detail |-> ""]
    /\ astep' = "done"
    /\ UNCHANGED <<report, aiConfig, provider, request, sent, answer, analysis, models>>

CreatesProvider ==
    /\ astep = "start" /\ aiConfig.enabled /\ Creatable(aiConfig)
    /\ provider' = [id |-> aiConfig.provider, protocol |-> Catalog[aiConfig.provider].protocol,
                    remote |-> ~Urls[BaseUrl(aiConfig)].loopback]
    /\ \/ request' = BuildAnalysisRequest(report) /\ astep' = "ask"
       \/ request' = request /\ astep' = "list"
    /\ UNCHANGED <<report, aiConfig, sent, answer, analysis, failure, models>>

Fails(code, detail) ==
    /\ failure' = [code |-> code, detail |-> detail]
    /\ astep' = "done"

(* discover_provider_models *)
ListsModels ==
    /\ astep = "list"
    /\ \/ \E inventory \in Inventories :
            /\ models' = Take(Sorted(inventory), MaxModels) /\ astep' = "done"
            /\ UNCHANGED failure
       \/ \E code \in {"ai_provider_unreachable", "ai_model_inventory_invalid"} :
            Fails(code, "") /\ UNCHANGED models
    /\ UNCHANGED <<report, aiConfig, provider, request, sent, answer, analysis>>

-------------------------------------------------------------------------------
(* analyze *)

Asking == astep \in {"ask", "simplify", "again"}

Sends == sent' = Append(sent, Messages(request, astep))

(* Any failure of the request, HTTP 400 to the last resort included. *)
RequestRefused ==
    /\ Asking
    /\ Sends
    /\ \E code \in {"ai_provider_timeout", "ai_provider_http_500", "ai_provider_unreachable",
                    "ai_response_not_json", "ai_response_too_large", "ai_response_invalid"} : Fails(code, "")
    /\ UNCHANGED <<report, aiConfig, provider, request, answer, analysis, models>>

(* Ollama and the OpenAI-compatible servers get the first request a second *)
(* time without the field they may not know; the others do not.            *)
BadRequest ==
    /\ Asking
    /\ Sends
    /\ IF astep = "ask" /\ provider.protocol \in {"ollama", "openai"}
       THEN astep' = "simplify" /\ UNCHANGED failure
       ELSE Fails(IF astep = "simplify" THEN "ai_provider_request_invalid" ELSE "ai_provider_http_400", "")
    /\ UNCHANGED <<report, aiConfig, provider, request, answer, analysis, models>>

(* Where each protocol has the text: a body is its holder (a message,      *)
(* choices, blocks, candidates), the content in it, and a text beside it.  *)
OllamaContent(r) == IF r.holder THEN r.content ELSE "null"

OpenAIContent(r) ==
    IF ~r.choices THEN "null"
    ELSE IF r.holder /\ r.content # "null" THEN r.content ELSE r.beside

(* Blocks that are no text are left out: what remains may be empty.  *)
AnthropicContent(r) == IF r.content = "list" THEN "list" ELSE "null"

GeminiContent(r) == IF r.choices /\ r.holder /\ r.content = "list" THEN "list" ELSE "null"

Content(r) ==
    CASE provider.protocol = "ollama" -> OllamaContent(r)
      [] provider.protocol = "openai" -> OpenAIContent(r)
      [] provider.protocol = "anthropic" -> AnthropicContent(r)
      [] provider.protocol = "gemini" -> GeminiContent(r)

(* A string, the strings of a list, or a parsed object written out again. *)
Coerced(content) ==
    CASE content \in {"text", "list"} -> Answers
      [] content = "object" -> {a \in Answers : a.form = "object"}
      [] OTHER -> {}

Answered ==
    /\ Asking
    /\ Sends
    /\ \E r \in Responses : answer' \in Coerced(Content(r))
    /\ astep' = IF astep = "again" THEN "reread" ELSE "read"
    /\ UNCHANGED <<report, aiConfig, provider, request, analysis, failure, models>>

Contentless ==
    /\ Asking
    /\ Sends
    /\ \E r \in Responses : Coerced(Content(r)) = {}
    /\ Fails("ai_response_missing_content", "")
    /\ UNCHANGED <<report, aiConfig, provider, request, answer, analysis, models>>

(* The lease is lost, or the job cancelled, at a heartbeat of the wait.    *)
Abandoned ==
    /\ Asking
    /\ astep' = "abandoned"
    /\ UNCHANGED <<report, aiConfig, provider, request, sent, answer, analysis, failure, models>>

-------------------------------------------------------------------------------
(* What an answer says. *)

(* The first object of a text that looks like an analysis, within the      *)
(* first MaxBraces braces.                                                 *)
Embedded(a) == a.form = "embedded" /\ a.braces < MaxBraces

(* An object that is all of the text, in fences or not, or embedded. *)
Readable(a) == (a.form = "object" \/ Embedded(a)) /\ a.keyed

(* Incomplete causes and actions are left out of the first MaxList; an     *)
(* order out of range becomes the position.                                *)
CompatibleCauses(a) == Those(Take(a.causes, MaxList), LAMBDA c : c.rules # {} /\ c.files /\ c.label /\ c.explained)

CompatibleActions(a) ==
    LET raw == Take(a.actions, MaxList)
    IN  Those([i \in DOMAIN raw |-> [raw[i] EXCEPT !.order = IF @ \in 1..20 THEN @ ELSE i]],
              LAMBDA x : x.action)

CompatibleAnswer(a) ==
    [text |-> a.text, causes |-> CompatibleCauses(a), actions |-> CompatibleActions(a),
     caveat |-> a.caveat, recovered |-> FALSE]

(* str(count) in text: a number is found inside a longer one, too. *)
Within(count, number) ==
    \/ number = count
    \/ \E k \in {1, 10, 100}, j \in {10, 100, 1000} : (number \div k) % j = count

Names(text, severity, count) ==
    severity \in text.severities /\ \E n \in text.numbers : Within(count, n)

Nonzero(req) == {s \in ToSet(Severities) : req.counts[s] > 0}

SeverityDistribution(req) == [severities |-> Nonzero(req), numbers |-> {req.counts[s] : s \in Nonzero(req)}]

Contradicts(content, req) == req.counts["medium"] > 0 /\ content.text.minor

(* What the model left out of the text is put before it, and what it left  *)
(* out of the caveat after it, where the cut may take it away again.       *)
Guarded(content, req) ==
    LET said == content.text
        missing == \E s \in Nonzero(req) : ~Names(said, s, req.counts[s])
        caveat == content.caveat
    IN  [content EXCEPT
          !.text = IF missing
                   THEN [said EXCEPT !.severities = @ \cup SeverityDistribution(req).severities,
                                     !.numbers = @ \cup SeverityDistribution(req).numbers]
                   ELSE said,
          !.caveat = IF caveat.full THEN caveat
                     ELSE [caveat EXCEPT !.areas = @ \cup req.skipped,
                                         !.selection = @ \/ req.omitted > 0]]

(* The findings of the rules that an action names. *)
Addressed(action, req) ==
    Chained([i \in DOMAIN action.addresses |->
               IF action.addresses[i] \in DOMAIN req.idsOf THEN req.idsOf[action.addresses[i]] ELSE <<>>])

FindingActions(content, req) ==
    Take(Chained([i \in DOMAIN content.actions |-> Addressed(content.actions[i], req)]), MaxGroups)

ReportAnalysis(content, req) ==
    [content |-> Guarded(content, req), remote |-> provider.remote,
     ids |-> ToSet(Take(InTurn(req.ids), MaxGroups)),
     actions |-> IF content.recovered THEN <<>> ELSE FindingActions(content, req)]

Detail(a, req) ==
    CASE ~Readable(a) -> "invalid_json"
      [] Readable(a) /\ ~a.text.present -> "schema_mismatch"
      [] Readable(a) /\ a.text.present /\ Contradicts(CompatibleAnswer(a), req) -> "severity_contradiction"
      [] OTHER -> "valid"

(* The first answer is read, or the question is put again. *)
ReadsAnswer ==
    /\ astep = "read"
    /\ IF Detail(answer, request) = "valid"
       THEN analysis' = ReportAnalysis(CompatibleAnswer(answer), request) /\ astep' = "done"
       ELSE UNCHANGED analysis /\ astep' = "again"
    /\ UNCHANGED <<report, aiConfig, provider, request, sent, answer, failure, models>>

EmptyRecovery == [present |-> TRUE, severities |-> {}, numbers |-> {}, minor |-> FALSE]

(* Prose, or the one value found in broken JSON, in the right language. *)
PlainTextRecovery(a) ==
    IF a.text.present /\ a.native /\ (a.form \in {"object", "broken"} => a.keyed)
    THEN a.text ELSE EmptyRecovery

RecoveredAnalysis(a, req) ==
    LET of(text) == [text |-> text, causes |-> <<>>, actions |-> <<>>,
                     caveat |-> [areas |-> {}, selection |-> FALSE, full |-> FALSE], recovered |-> TRUE]
        told == of(PlainTextRecovery(a))
    IN  ReportAnalysis(IF Contradicts(told, req) THEN of(EmptyRecovery) ELSE told, req)

(* The second answer is read, or wrapped as text: it cannot fail. *)
ReadsAgain ==
    /\ astep = "reread"
    /\ analysis' = IF Detail(answer, request) = "valid"
                   THEN ReportAnalysis(CompatibleAnswer(answer), request)
                   ELSE RecoveredAnalysis(answer, request)
    /\ astep' = "done"
    /\ UNCHANGED <<report, aiConfig, provider, request, sent, answer, failure, models>>

-------------------------------------------------------------------------------
AdvisoryIdle ==
    /\ report = None /\ aiConfig = None /\ astep = "off" /\ provider = None /\ request = None
    /\ sent = <<>> /\ answer = None /\ analysis = None
    /\ failure = [code |-> "", detail |-> ""] /\ models = <<>>

AdvisoryInit ==
    /\ report \in Reports /\ aiConfig \in {c \in AIConfigs : c.enabled => ValidSelection(c)} /\ astep = "start"
    /\ provider = None /\ request = None /\ sent = <<>> /\ answer = None /\ analysis = None
    /\ failure = [code |-> "", detail |-> ""] /\ models = <<>>

AdvisoryNext ==
    \/ Disabled \/ CannotCreate \/ CreatesProvider \/ ListsModels
    \/ RequestRefused \/ BadRequest \/ Answered \/ Contentless \/ Abandoned \/ ReadsAnswer \/ ReadsAgain

-------------------------------------------------------------------------------
(* Properties. *)

AdvisoryTypeOK ==
    /\ astep \in {"off", "start", "list", "ask", "simplify", "again", "read", "reread", "done", "abandoned"}
    /\ analysis # None => failure.code = ""
    /\ Len(sent) <= 3

(* What leaves the program: never to another host without consent; never   *)
(* an excerpt of a source in which a security rule struck; never more than *)
(* the budget; the worst findings before others.                           *)
OnlyBoundedRedactedContext ==
    sent # <<>> =>
        /\ provider.remote => aiConfig.consent
        /\ \A s \in ToSet(sent) :
             /\ EncodedCharacters(s.groups) <= IF s.attempt = "again" THEN MaxRetryContext ELSE MaxContext
             /\ \A g \in ToSet(s.groups) : \A e \in ToSet(g.evidence) :
                    e.quoted /\ e.source # 0 =>
                      ~\E f \in ToSet(report.findings) : f.source = e.source /\ f.rule \in StaticRules
             /\ \A f \in ToSet(report.findings), g \in ToSet(s.groups) :
                    f.id \notin request.ids => Priority(g.severity) <= Urgency(report, GroupKey(f))

(* What the report then says: the severities with their numbers, nothing   *)
(* that plays medium findings down, the areas that were not evaluated and  *)
(* the groups that were not sent unless the model's own caveat is as long  *)
(* as a caveat may be, actions only for findings that were sent.           *)
AnalysisIsGuarded ==
    analysis # None =>
        /\ \A s \in Nonzero(request) : Names(analysis.content.text, s, report.counts[s])
        /\ ~(report.counts["medium"] > 0 /\ analysis.content.text.minor)
        /\ ~analysis.content.caveat.full =>
             /\ report.skipped \subseteq analysis.content.caveat.areas
             /\ (\E f \in ToSet(report.findings) : f.id \notin request.ids) => analysis.content.caveat.selection
        /\ analysis.ids \cup ToSet(analysis.actions) \subseteq {f.id : f \in ToSet(report.findings)} \cap request.ids

(* An analysis of a report is finished as one of the two, never as both or *)
(* neither, and is what the code promises.                                 *)
AdvisoryIsHonest ==
    /\ OnlyBoundedRedactedContext
    /\ AnalysisIsGuarded
    /\ astep = "done" /\ sent # <<>> => ((analysis = None) # (failure.code = ""))

===============================================================================
