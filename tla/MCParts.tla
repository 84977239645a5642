-------------------------------- MODULE MCParts --------------------------------
(***************************************************************************)
(* Small instances of the parts, for one run.                              *)
(***************************************************************************)
EXTENDS Parts, TLC

(* FileDiscovery: a directory with a file, a link, a second link and a   *)
(* special file in it, and links to directories, outside and nowhere.    *)
TreeEntries == 1..9
TreeParent == <<0, 1, 1, 0, 0, 0, 1, 1, 0>>
TreeKind == <<"dir", "file", "link", "link", "file", "link", "special", "link", "file">>
TreeTarget == <<0, 0, 0, 1, 0, 2, 0, 99, 0>>
TreeClass == <<"wanted", "wanted", "ignored", "ignored", "unsupported", "wanted", "wanted", "ignored", "ignored">>
SomeWalks ==
  {[follow |-> TRUE, recursive |-> TRUE, max |-> 3], [follow |-> TRUE, recursive |-> TRUE, max |-> 1],
   [follow |-> TRUE, recursive |-> FALSE, max |-> 3], [follow |-> FALSE, recursive |-> FALSE, max |-> 1]}

(* Listing *)

SomeSurveys ==
  {[kind |-> k, limit |-> l, pageSize |-> p, counted |-> c, url |-> 0] :
     k \in {"filesystem", "openwebui"}, l \in {4, 9}, p \in {2, 3, 4}, c \in BOOLEAN} \cup
  {[kind |-> "website", limit |-> l, pageSize |-> 1, counted |-> FALSE, url |-> u] :
     l \in {3, 9}, u \in {20, 21, 22, 26}}
SomeSources == {<<1, 2, 3, 4, 5, 6, 7>>, <<1>>, <<>>, <<2,4,6,1,3,5>>}
Maps == 21 :> [index |-> FALSE, locs |-> <<1, 2, 30, 2, 3, 1>>]
     @@ 22 :> [index |-> TRUE, locs |-> <<23, 24, 25, 23, 21>>]
     @@ 23 :> [index |-> FALSE, locs |-> <<4, 2>>]
     @@ 24 :> [index |-> TRUE, locs |-> <<23>>]
     @@ 25 :> [index |-> FALSE, locs |-> <<1, 30, 4>>]
     @@ 26 :> [index |-> TRUE, locs |-> <<23, 24, 25>>]

(* Chunking *)

Plain == [text: UNION {[1..n -> {"a", ".", " ", "P"}] : n \in 0..5}, marks: {{}}, pages: {<<>>}]
MarkOf(k, f, t, l) == [kind |-> k, from |-> f, to |-> t, level |-> l]
PageOf(f, t, p) == [from |-> f, to |-> t, page |-> p]
Laid == 
 { [text |-> t, marks |-> ms, pages |-> ps] :
    t \in {<<"a","P","a"," ","a","P","a",".", " ", "a","a","P","-","P","a">>, 
           <<"-","P","a"," ","a"," ","a"," ","a","a"," ","a"," ","a"," ", "a">>},
    ms \in {{}, {MarkOf("heading", 0, 1, 1), MarkOf("heading", 2, 5, 2), MarkOf("heading", 12, 13, 1)},
            {MarkOf("table", 0, 1, 0), MarkOf("table", 2, 5, 0), MarkOf("code", 6, 10, 0)},
            {MarkOf("heading", 2, 5, 1), MarkOf("table", 8, 11, 0)}},
    ps \in {<<>>, <<PageOf(0, 5, 1), PageOf(5, 9, 2), PageOf(9, 15, 3)>>, <<PageOf(0, 5, 1), PageOf(5, 9, 0), PageOf(9, 15, 2)>>}}
SomePapers == Plain \cup Laid
ChunkConfigOf(s, tg, tk, c, o, r, fl, mb, mc) == [strategy |-> s, target |-> tg, tokens |-> tk, chars |-> c, overlap |-> o, ratio |-> r,
   pages |-> fl, keep |-> fl, merge |-> fl, maxBlocks |-> mb, maxChunks |-> mc]
SomeConfigs == {ChunkConfigOf("structure", 2, 3, 4, 2, 50, TRUE, 9, 9), ChunkConfigOf("structure", 3, 4, 9, 2, 50, FALSE, 9, 9), 
   ChunkConfigOf("paragraph", 2, 4, 5, 1, 20, TRUE, 9, 3), ChunkConfigOf("window", 2, 2, 3, 1, 50, FALSE, 9, 9), ChunkConfigOf("structure", 1, 2, 9, 1, 50, TRUE, 4, 9)}

(* Normalization *)

Small == [text: UNION {[1..n -> {"a", "^", "0", " ", "n", "r", "|"}] : n \in 0..4}, kind: {"text"}]
Chosen == [text: {
   <<"n","n","n","|","a","|","a","a","-","n","a","a"," ","a","n","A","A">>,
   <<"a","a","-"," ","n","a","a","n","a","a","a","a","n","a"," "," ","|", "n","-"," ","a","a","n","a">>,
   <<"f","n"," "," ","a","n","n","n","n","f","n","a"," "," ","a","n"," "," "," "," ","a">>,
   <<"a","r","n","|","-","|","r","n","0","a","^","^","r","n","n","n","n","|","|">>}, kind: {"text", "markdown", "pdf"}]
SomeScripts == Small \cup Chosen
RulesOf(nl, b, mb, ms, mo) == [newlines |-> nl, unicode |-> b, visible |-> b, horizontal |-> b, trim |-> b,
            maxBlank |-> mb, hyphens |-> b, wraps |-> nl, maxSegments |-> ms, maxOutput |-> mo]
SomeRules == {RulesOf(TRUE, TRUE, 1, 3, 99), RulesOf(FALSE, FALSE, 0, 99, 8), RulesOf(TRUE,FALSE, 3, 5, 99)}

(* Advisory *)

FindingRow(i, rl, sv, gr, so, ch) == [id |-> i, rule |-> rl, severity |-> sv, group |-> gr, source |-> so, chunk |-> ch]
CountsOf(c, h, m, l) == [critical |-> c, high |-> h, medium |-> m, low |-> l, info |-> 0]
SomeReports == {
 [findings |-> <<FindingRow(1, 100, "high", 0, 1, 1), FindingRow(2, 2, "medium", 7, 1, 1), FindingRow(3, 2, "medium", 7, 2, 2), FindingRow(4, 3, "low", 0, 3, 3),
                 FindingRow(5, 3, "low", 0, 1, 4), FindingRow(6, 4, "medium", 0, 2, 5)>>,
  duplicates |-> (7 :> <<1, 2, 3>>), counts |-> CountsOf(0, 1, 3, 12), skipped |-> {"versions"}],
 [findings |-> <<FindingRow(1, 100, "low", 0, 0, 1), FindingRow(2, 2, "low", 0, 0, 1), FindingRow(3, 5, "low", 8, 2, 2)>>,
  duplicates |-> <<>>, counts |-> CountsOf(0, 0, 0, 3), skipped |-> {}],
 [findings |-> <<>>, duplicates |-> <<>>, counts |-> CountsOf(0,0,0,0), skipped |-> {"versions"}]}
AIConfigOf(p, u, c, k) == [enabled |-> TRUE, provider |-> p, model |-> "m", url |-> u, credential |-> c, consent |-> k]
SomeAIConfigs == {[AIConfigOf("ollama", "", "", FALSE) EXCEPT !.enabled = FALSE], AIConfigOf("ollama", "", "", FALSE), AIConfigOf("ollama", "far", "", FALSE),
   AIConfigOf("ollama", "plain", "", TRUE), AIConfigOf("anthropic", "", "keyA", TRUE), AIConfigOf("google-gemini", "", "keyB", TRUE), AIConfigOf("custom", "", "keyA", TRUE), AIConfigOf("custom", "far", "keyA", TRUE),
   AIConfigOf("openai", "", "keyA", FALSE), AIConfigOf("google-gemini", "", "keyA", TRUE)}
SomeCatalog == [ollama |-> [protocol |-> "ollama", url |-> "near"], anthropic |-> [protocol |-> "anthropic", url |-> "far"],
                custom |-> [protocol |-> "openai", url |-> ""], openai |-> [protocol |-> "openai", url |-> "far"]]
   @@ ("google-gemini" :> [protocol |-> "gemini", url |-> "far"])
SomeUrls == [near |-> [valid |-> TRUE, loopback |-> TRUE, https |-> FALSE], far |-> [valid |-> TRUE, loopback |-> FALSE, https |-> TRUE],
             plain |-> [valid |-> TRUE, loopback |-> FALSE, https |-> FALSE]]
SummaryText(p, ss, ns, mi) == [present |-> p, severities |-> ss, numbers |-> ns, minor |-> mi]
CaveatOf(as, se, fu) == [areas |-> as, selection |-> se, full |-> fu]
ActionOf(o, ad, x) == [order |-> o, addresses |-> ad, action |-> x]
CauseOf(rr, x) == [rules |-> rr, files |-> x, label |-> TRUE, explained |-> TRUE]
AnswerOf(f, k, t, c, aa) == [form |-> f, keyed |-> k, braces |-> IF f = "embedded" THEN 1 ELSE 0, text |-> t, native |-> TRUE, caveat |-> c, actions |-> aa, causes |-> <<CauseOf({2}, TRUE), CauseOf({}, TRUE)>>]
SomeAnswers == {
  AnswerOf("object", TRUE, SummaryText(TRUE, {"high","medium","low"}, {1, 3, 12}, FALSE), CaveatOf({"versions"}, TRUE, FALSE), <<ActionOf(1, <<2, 9, 100>>, TRUE), ActionOf(0, <<3>>, TRUE)>>),
  AnswerOf("object", TRUE, SummaryText(TRUE, {"low"}, {13}, TRUE), CaveatOf({}, FALSE, TRUE), <<ActionOf(99, <<4>>, TRUE), ActionOf(1, <<3>>, FALSE), ActionOf(2, <<2>>, TRUE)>>),
  AnswerOf("object", TRUE, SummaryText(FALSE, {}, {}, FALSE), CaveatOf({}, FALSE, FALSE), <<>>),
  AnswerOf("object", FALSE, SummaryText(TRUE, {}, {}, FALSE), CaveatOf({}, FALSE, FALSE), <<>>),
  AnswerOf("embedded", TRUE, SummaryText(TRUE, {"medium"}, {3}, FALSE), CaveatOf({}, FALSE, FALSE), <<ActionOf(3, <<2>>, TRUE)>>),
  [AnswerOf("embedded", TRUE, SummaryText(TRUE, {"medium"}, {3}, FALSE), CaveatOf({}, FALSE, FALSE), <<>>) EXCEPT !.braces = 4],
  AnswerOf("prose", FALSE, SummaryText(TRUE, {"high"}, {}, TRUE), CaveatOf({}, FALSE, FALSE), <<>>),
  [AnswerOf("prose", FALSE, SummaryText(TRUE, {"high"}, {}, FALSE), CaveatOf({}, FALSE, FALSE), <<>>) EXCEPT !.native = FALSE],
  AnswerOf("broken", TRUE, SummaryText(TRUE, {"low"}, {4}, FALSE), CaveatOf({}, FALSE, FALSE), <<>>)}
BodyOf(h, c, x, b) == [holder |-> h, choices |-> x, content |-> c, beside |-> b]
SomeResponses == {BodyOf(TRUE, "text", TRUE, "null"), BodyOf(TRUE, "list", TRUE, "null"), BodyOf(TRUE, "object", TRUE, "null"),
   BodyOf(TRUE, "null", TRUE, "text"), BodyOf(FALSE, "null", TRUE, "null"), BodyOf(TRUE, "text", FALSE, "null")}
SomeInventories == {<<3, 1, 2>>, <<>>}

(* StaticSecurity *)

SegmentOf(f, t, p, l) == [from |-> f, to |-> t, page |-> p, first |-> l, last |-> l]
ChunkOf(f, t, hs) == [from |-> f, to |-> t, headings |-> hs]
FieldOf(n, t) == [name |-> n, text |-> t]
Text1 == <<"agent", "ignore", "rules", "x", "key", "ignore", "rules", "docs", "b64", "bad.url", "card", "plain.url">>
Doc1 == [raw |-> Text1, norm |-> Text1, segments |-> <<SegmentOf(0, 3, 1, 1), SegmentOf(3, 7, 1, 2), SegmentOf(7, 12, 2, 5)>>,
  chunks |-> <<ChunkOf(0, 6, <<>>), ChunkOf(4, 9, <<<<"ignore", "rules">>>>), ChunkOf(9, 12, <<>>)>>, title |-> <<"ignore", "rules">>,
  fields |-> <<FieldOf("document.a", <<"x">>), FieldOf("source.b", <<"ignore", "rules", "ignore", "rules">>)>>,
  notices |-> <<[code |-> "hidden", page |-> 2]>>, notes |-> <<[type |-> "bidi", from |-> 7, to |-> 8], [type |-> "code_region", from |-> 3, to |-> 7]>>,
  place |-> [page |-> 0, first |-> 1, last |-> 9]]
(* A phrase of which two places overlap. *)
Text3 == [Text1 EXCEPT ![2] = "x", ![3] = "x"]
SomeDocs == {Doc1, [Doc1 EXCEPT !.chunks = <<>>, !.title = <<>>],
  [Doc1 EXCEPT !.raw = Text3, !.norm = Text3, !.chunks = <<ChunkOf(0, 12, <<>>)>>]}
MatcherOf(t, ps) == [type |-> t, patterns |-> ps, fields |-> {}]
RuleOf(i, c, sc, ms, rq) == [id |-> i, category |-> c, scope |-> sc, matchers |-> ms, requires |-> rq, exclusions |-> {"sample"}, enabled |-> c # "pii",
     confidence |-> 95, detection |-> "deterministic"]
Texts == {"chunk", "raw_document", "normalized_document", "title", "heading", "metadata", "code_block"}
SomeLibraries == {<<RuleOf(1, "prompt", Texts, <<MatcherOf("substring_ci", <<<<"ignore", "rules">>, <<"docs">>, <<"x", "x">>>>), MatcherOf("metadata_field", <<<<"ignore", "rules">>>>)>>, {}),
   RuleOf(2, "prompt", Texts \cup {"url"}, <<MatcherOf("regex", <<<<"ignore", "rules">>>>), MatcherOf("url_property", <<>>)>>, {"agent_instruction"}),
   RuleOf(3, "secret_exposure", Texts, <<MatcherOf("secret_pattern", <<>>)>>, {"not_placeholder"}),
   RuleOf(4, "pii", {"chunk", "normalized_document"}, <<MatcherOf("pii_pattern", <<>>)>>, {}),
   RuleOf(5, "hidden_content", {"normalization_annotation", "parser_warning", "url", "title"},
      <<MatcherOf("annotation_type", <<<<"bidi">>>>), MatcherOf("warning_code", <<<<"hidden">>>>), MatcherOf("url_property", <<>>), MatcherOf("exact", <<<<"ignore", "rules">>>>)>>, {}),
   RuleOf(6, "encoded", Texts, <<MatcherOf("decoded_content", <<<<"ignore">>>>)>>, {})>>}
SomeSelections == {[ids |-> {}, excluded |-> {}, categories |-> {}, scopes |-> {}, disabled |-> FALSE, pii |-> p] : p \in BOOLEAN} \cup
  {[ids |-> {1, 2, 3}, excluded |-> {2}, categories |-> {"prompt"}, scopes |-> {"chunk"}, disabled |-> TRUE, pii |-> FALSE]}
LimitsOf(r, p, f, e, i, d, w) == [rules |-> r, perRule |-> p, findings |-> f, fields |-> e, input |-> i, depth |-> d, evidence |-> w]
SomeLimits == {LimitsOf(9, 20, 60, 5, 20, 2, 4), LimitsOf(4, 2, 5, 1, 3, 1, 4), LimitsOf(9, 4, 40, 5, 20, 0, 2)}
SomeSymbols == [agent |-> {"agent"}, docs |-> {"docs"}, benign |-> {"docs"}, placeholder |-> {"sample"}, secrets |-> {"key"}, masked |-> {},
  decodes |-> ("b64" :> "b65" @@ "b65" :> "ignore"), reasons |-> ("bad.url" :> {"ip"} @@ "plain.url" :> {}), plainHttp |-> {"plain.url"},
  pii |-> ("card" :> "payment_card"), digits |-> ("card" :> <<4, 1, 1, 1, 1, 1, 1, 1, 1, 1, 1, 1, 1, 1, 1, 1>>)]

(* Quality *)

DocOf(i, p, t, n, b) == [id |-> i, path |-> p, text |-> t, normalized |-> n, boilerplate |-> b]
PieceOf(i, d, p, t, g, f, k, hd, mx) == [id |-> i, document |-> d, path |-> p, text |-> t, generated |-> g, forced |-> f, kinds |-> k, headings |-> hd, maximum |-> mx]
L1 == <<"a","b","c","d","e">>
L2 == <<"a","b","c","d","f">>
L3 == <<"b","c","d","f">>
Near1 == <<L1, <<"7">>, L3>>
Plainc(i, d, p, t) == PieceOf(i, d, p, t, FALSE, FALSE, {}, {}, 100)
SomeCollections == {
 [docs |-> {DocOf(1, 1, <<L1>>, TRUE, {}), DocOf(2, 2, <<L1>>, TRUE, {}), DocOf(3, 1, <<L2, L3>>, TRUE, {<<"A">>}), DocOf(4, 4, <<L2>>, FALSE, {})},
  chunks |-> {Plainc(11, 1, 1, <<L1>>), Plainc(12, 3, 1, <<L2>>), Plainc(13, 3, 1, <<L2>>), Plainc(14, 3, 1, <<L3>>), Plainc(15, 2, 2, <<L2>>), Plainc(16, 9, 9, <<L2>>),
     Plainc(17, 2, 2, <<L3, <<"A">>>>), Plainc(18, 4, 4, <<L2, <<"e">>>>)}],
 [docs |-> {DocOf(1, 1, <<L1, L2, L3>>, TRUE, {}), DocOf(2, 2, <<L1, L1>>, TRUE, {}), DocOf(3, 3, <<L3, L1>>, TRUE, {})},
  chunks |-> {Plainc(11, 1, 1, <<L1, L2>>), Plainc(12, 1, 1, <<L1, L3>>), Plainc(13, 2, 2, <<L1, <<"d","e">>>>), Plainc(14, 3, 3, <<L2, <<"e">>>>), Plainc(15, 3, 3, <<L2, <<"e">>>>)}],
 [docs |-> {DocOf(1, 1, <<L1, <<"A">>>>, TRUE, {<<"A">>, <<"7">>}), DocOf(2, 2, <<L2>>, TRUE, {})},
  chunks |-> {PieceOf(11, 1, 1, <<>>, FALSE, FALSE, {}, {}, 100), PieceOf(12, 1, 1, <<<<"7">>>>, FALSE, FALSE, {}, {}, 100), PieceOf(13, 1, 1, <<<<".", ".">>>>, FALSE, TRUE, {"table"}, {}, 100),
     PieceOf(14, 1, 1, <<L1, L1, L1, L2>>, FALSE, TRUE, {"table"}, {}, 10), PieceOf(15, 1, 1, <<<<"A">>>>, TRUE, FALSE, {}, {<<"A">>}, 100), 
     PieceOf(16, 2, 2, <<<<"#","#","^","^","?","?","?">>>>, TRUE, TRUE, {}, {}, 100), PieceOf(17, 2, 2, <<<<"a", "a", "a", "b">>>>, TRUE, TRUE, {}, {}, 100),
     PieceOf(18, 2, 2, <<<<"a","b","a","b","a","b">>>>, FALSE, FALSE, {}, {}, 100), PieceOf(19, 2, 2, <<<<"a","b","a","b","a","b", "c">>>>, FALSE, FALSE, {}, {}, 100)}]}
QualityConfigOf(s, d, c, g, f, ca) == [scanner |-> s, docs |-> d, chunks |-> c, groups |-> g, findings |-> f, characters |-> 5, tokens |-> 3, compare |-> 7,
  shingle |-> 2, shingles |-> 9, bucket |-> 9, candidates |-> ca, threshold |-> 5000, most |-> 12, fewest |-> 3, outlier |-> 2, near |-> 90, sample |-> 4, dominance |-> 60,
  repeated |-> 55, density |-> 40, overlap |-> 40, excessive |-> 3]
SomeQualityConfigs == UNION {{QualityConfigOf(s, 9, 9, 9, 50, 99), QualityConfigOf(s, 2, 4, 1, 2, 2), QualityConfigOf(s, 9, 9, 1, 3, 99), QualityConfigOf(s, 9, 4, 9, 1, 2)} : s \in {"exact", "near", "chunk"}}
WordClasses == [lower |-> {"a","b","c","d","e","f"}, digits |-> {"7"}, punctuation |-> {"."}, keys |-> {}, markers |-> {"^"}, replacements |-> {"?"}, unprintable |-> {"#"},
  code |-> [w \in {"a","b","c","d","e","f", "A", "7", ".", "^", "?", "#"} |-> CASE w = "a" -> 1 [] w = "b" -> 2 [] w = "c" -> 3 [] w = "d" -> 4 [] w = "e" -> 5 [] w = "f" -> 6 [] w = "A" -> 7 [] w = "7" -> 8 [] w = "." -> 9 [] w = "^" -> 10 [] w = "?" -> 11 [] w = "#" -> 12]]

(* Evaluation *)

PayloadRow(i, ws, hs, sf, un) == [id |-> i, words |-> ws, placeholders |-> hs, safe |-> sf, unsafe |-> un]
IndicatorOf(k, v, a) == [kind |-> k, value |-> v, argument |-> a]
CaseOf(i, ps, ct, md, sv, us, sf, am) == [id |-> i, payloads |-> ps, control |-> ct, mode |-> md, risk |-> "none", severity |-> sv,
  enabled |-> TRUE, category |-> "leak", tags |-> {"tag"}, languages |-> {"en"}, unsafe |-> us, safe |-> sf, ambiguous |-> am]
PlainPayload == PayloadRow(1, <<"say", "it">>, <<>>, TRUE, FALSE)
HoledPayload == PayloadRow(2, <<"say", "CANARY">>, <<"CANARY">>, TRUE, FALSE)
ControlPayload == PayloadRow(3, <<"hello">>, <<>>, TRUE, FALSE)
SafeCaseSigns == {IndicatorOf("tool", "run", <<"path", "x">>), IndicatorOf("exact", <<"done">>, <<>>), IndicatorOf("contains", <<"yes", "sir">>, <<>>), IndicatorOf("status", 500, <<>>)}
LabCaseSigns == {IndicatorOf("function", "run", <<>>), IndicatorOf("tool", "walk", <<"bad">>), IndicatorOf("regex", {"yes", "done"}, <<>>), IndicatorOf("field", "leaked", <<>>), IndicatorOf("finish", "tool", <<>>)}
SomePack == <<CaseOf(1, <<PlainPayload, HoledPayload>>, ControlPayload, "safe", "high", SafeCaseSigns, {IndicatorOf("contains", <<"no">>, <<>>)}, {IndicatorOf("contains", <<"maybe">>, <<>>)}),
     CaseOf(2, <<[PlainPayload EXCEPT !.id = 4, !.safe = FALSE, !.unsafe = TRUE]>>, Unobserved, "lab", "low", LabCaseSigns, {IndicatorOf("exact", <<"no">>, <<>>)}, {})>>
BadPacks == {<<CaseOf(1, <<PlainPayload>>, Unobserved, "safe", "high", {}, {}, {})>>,
  <<CaseOf(1, <<PlainPayload>>, Unobserved, "safe", "low", {}, {}, {}), CaseOf(2, <<PlainPayload>>, Unobserved, "safe", "low", {}, {}, {})>>}
DemandOf(cs, s, v) == [categories |-> cs, tags |-> {}, languages |-> {}, enabled |-> {TRUE}, safe |-> s, values |-> v]
ObservationOf(b, ts, fs, tr) == [error |-> FALSE, status |-> 200, body |-> b, tools |-> ts, functions |-> {}, fields |-> fs, finish |-> "stop", truncated |-> tr]
RunCall == [name |-> "run", arguments |-> [k \in {"path"} |-> "x"]]
SomeObservations == {ObservationOf(b, {}, {}, tr) : b \in {<<>>, <<"done">>, <<"yes", "sir">>, <<"no">>, <<"maybe", "no">>, <<"cannot">>, <<"leak">>, <<"yrnx">>, <<"say", "it">>, <<"ok", "ok", "ok", "leak">>}, tr \in BOOLEAN}
  \cup {ObservationOf(<<"ok">>, {RunCall}, {}, FALSE), ObservationOf(<<"ok", "no">>, {RunCall}, {"leaked"}, FALSE), ObservationOf(<<"maybe">>, {[name |-> "walk", arguments |-> <<>>]}, {}, FALSE),
    [ObservationOf(<<"ok">>, {}, {}, FALSE) EXCEPT !.error = TRUE], [ObservationOf(<<"ok">>, {}, {}, FALSE) EXCEPT !.status = 0],
    [ObservationOf(<<"ok">>, {}, {}, FALSE) EXCEPT !.finish = "tool"], [ObservationOf(<<"ok">>, {}, {}, FALSE) EXCEPT !.functions = {RunCall}], [ObservationOf(<<"ok">>, {}, {}, FALSE) EXCEPT !.status = 500]}
SomeControls == {Unobserved, ObservationOf(<<"done">>, {}, {}, FALSE), ObservationOf(<<"cannot">>, {}, {}, FALSE), ObservationOf(<<"ok", "ok">>, {}, {}, FALSE), ObservationOf(<<"yes", "sir">>, {RunCall}, {}, FALSE)}
SomePhrases == [holes |-> {"CANARY"}, safeHoles |-> {"CANARY"}, forbidden |-> {"rm"}, refusals |-> {"cannot"}, leaks |-> {"leak"}, decodes |-> [w \in {"yrnx"} |-> {"leak"}],
  alike |-> {<<<<"ok", "ok", "ok">>, <<"ok", "ok">>>>}]
SomeTrials ==
  [pack: {SomePack}, choice: {DemandOf({}, s, [x \in {"CANARY"} |-> "word"]) : s \in BOOLEAN} \cup {DemandOf({}, FALSE, <<>>)}, response: SomeObservations, control: SomeControls]
  \cup [pack: BadPacks \cup {SomePack}, choice: {DemandOf({"other"}, TRUE, <<>>), DemandOf({}, TRUE, [x \in {"CANARY"} |-> "rm"])},
        response: {ObservationOf(<<>>, {}, {}, FALSE)}, control: {Unobserved}]

(* Access *)

SomeApiKeys == [few |-> [id |-> 1, scopes |-> {"jobs:read"}]]

(* Console: two ways to write one location. *)

SomeLocations == {"a", "a/"}
OneIdentity == [l \in SomeLocations |-> "a"]

(* Measures *)

ProblemOf(a, d, s, w, c) == [area |-> a, document |-> d, since |-> s, severity |-> w, confidence |-> c, legacy |-> a = "consistency"]
SomeProblems == (1 :> ProblemOf("static_security", 1, 1, <<"critical", "high">>, 95)) @@ (2 :> ProblemOf("static_security", 2, 2, <<"low", "critical">>, 80))
  @@ (3 :> ProblemOf("chunk_quality", 2, 1, <<"medium", "medium">>, 70)) @@ (4 :> ProblemOf("consistency", 1, 1, <<"low", "low">>, 50))
SettingOf(a, p, v, ch, d) == [source |-> "kb", type |-> "static", areas |-> a, pack |-> p, policy |-> v, chunks |-> ch, duplicates |-> d]
AllAreas == {"static_security", "chunk_quality", "duplicates"}
SomeTexts == <<[overall |-> 80, tokens |-> 10], [overall |-> 90, tokens |-> 0]>>
SomeSettings == {SettingOf(AllAreas, 1, 1, SomeTexts, {10, 30}), SettingOf(AllAreas, 2, 1, SomeTexts, {10, 30}),
  SettingOf(AllAreas, 1, 2, SomeTexts, {10, 30}),
  SettingOf({"chunk_quality", "duplicates"}, 1, 1, <<>>, {10}),
  [SettingOf(AllAreas, 1, 1, SomeTexts, {10, 30}) EXCEPT !.source = "other", !.type = "active"]}
SomePolicies ==
  LET weights == [security |-> 35, knowledge_quality |-> 20, efficiency |-> 15]
      penalties == [critical |-> 25, high |-> 15, medium |-> 8, low |-> 3]
  IN  <<[weights |-> weights, penalties |-> penalties, cap |-> 5499, minimum |-> 2],
        [weights |-> [weights EXCEPT !.efficiency = 0], penalties |-> [penalties EXCEPT !.low = 60], cap |-> 9000, minimum |-> 1]>>
SomeOldReports == {[source |-> "kb", type |-> "static", pack |-> 1, policy |-> 1, parsed |-> 2,
    coverage |-> [a \in Areas |-> a \in AllAreas \cup {"version_conflict"}],
    findings |-> {FindingFor(1, 1), FindingFor(4, 1)}, scores |-> [security |-> 7625, knowledge_quality |-> 8500, efficiency |-> 7000, overall |-> 5499],
    legacy |-> TRUE, setting |-> {}, truth |-> {1, 4}, read |-> {1, 2}]}

(* Calibration *)

LabelledCase(i, p, l, f, e) == [id |-> i, place |-> p, language |-> l, format |-> f, expected |-> e]
SomeManifests == {<<LabelledCase(1, "file", "en", "md", {1, 2}), LabelledCase(2, "file", "tr", "md", {}), LabelledCase(3, "file", "en", "pdf", {2})>>,
  <<LabelledCase(1, "file", "en", "md", {}), LabelledCase(1, "file", "en", "md", {})>>, <<LabelledCase(1, "outside", "en", "md", {})>>, <<LabelledCase(1, "directory", "en", "md", {})>>}

(* Retrieval *)

BodyWith(s, m, d, b, t) == [size |-> s, bom |-> m, decodes |-> d, binary |-> b, text |-> t]
SomeBodies == [plain |-> BodyWith(2, FALSE, {"utf-8", "latin"}, FALSE, TRUE), old |-> BodyWith(2, FALSE, {"latin"}, FALSE, TRUE),
  marked |-> BodyWith(1, TRUE, {}, FALSE, TRUE), large |-> BodyWith(4, FALSE, {"utf-8"}, FALSE, FALSE), zeros |-> BodyWith(1, FALSE, {"utf-8"}, TRUE, TRUE), pages |-> BodyWith(2, FALSE, {}, TRUE, FALSE)]
SomeEncodings == {[strategy |-> "strict", fallbacks |-> <<>>], [strategy |-> "fallback", fallbacks |-> <<"greek", "latin">>], [strategy |-> "replace", fallbacks |-> <<>>]}
===============================================================================
